---- MODULE Spec2Model ----
(***************************************************************************)
(* The vulnerability-lifecycle pipeline of Commit-Builder:                 *)
(*   pipe_main.py        VulnerabilityPipeline (orchestrator, counters)    *)
(*   vcc_intro.py        VulnerabilityProjectBuilder.build_project         *)
(*   gen_commitHistory.py CommitHistoryGenerator (commit-history steps)    *)
(*   gen_patch.py        VulnerabilityPatcher (per-finding patch loop)     *)
(*   gen_testcases.py    VulnerabilityTestGenerator (test templates)       *)
(*   parse_manifest.py   the extractor of the Juliet testcases             *)
(*                                                                         *)
(* The specifications share the variables:                                 *)
(*   Spec         run_pipeline over the testcase directories, with the     *)
(*                patch loop of gen_patch.py run inside the patch stage;   *)
(*   SpecErrors   Spec, and process_single_testcase may raise;             *)
(*   SpecPatch    patch_all_findings on one findings file;                 *)
(*   SpecAlias    patch_all_findings under every naming of the fields;     *)
(*   SpecCommits  build_project's setup commit followed by                 *)
(*                generate_commits and _apply_commits on one tracked file; *)
(*   SpecParse    parse_gpt_response applied to a response;                *)
(*   SpecComplete is_complete_java_file applied to a snippet;              *)
(*   SpecTemplate get_test_template applied to a CWE id;                   *)
(*   SpecTest     generate_test on one main Java file;                     *)
(*   SpecPrompt   build_prompt applied to a CWE id and a main file;        *)
(*   SpecManifest parse_manifest_for_testcase on one manifest;             *)
(*   SpecExtract  main of parse_manifest.py over the target files;         *)
(*   SpecGenerate generate_commits on its own;                             *)
(*   SpecSkip     patch_all_findings on findings that lack a field.        *)
(* External collaborators (the LLM, git, Maven, the scanner, the file      *)
(* system listing) are nondeterministic choices over their outcomes.       *)
(* Inside the stages print is taken never to raise.                        *)
(***************************************************************************)
EXTENDS Integers, Sequences, FiniteSets, TLC

VARIABLES
    \* ---- pipe_main.py
    parsed_juliet,      \* numbers N of the testcase-N directories on disk
    range,              \* <<start_testcase, end_testcase>> of run_pipeline
    testcase_dirs,      \* run_pipeline's list, after sort and range filter
    idx,                \* the loop's i: testcases taken off the list so far
    pc,                 \* position of the orchestrator
    stats,              \* PipelineStats
    completed_steps,    \* process_single_testcase's local list
    findings_file,      \* content of findings-N.json of the current testcase
    generate_commits_result, \* testcase number -> what generate_commits returned
    interrupted,        \* a KeyboardInterrupt ended the loop
    \* ---- history of the run (observation only)
    processed,          \* testcase numbers in the order processing started
    active,             \* stage executions begun and not yet returned
    stage_log,          \* testcase number -> its stage invocations, in call order
    returned_steps,     \* testcase number -> list process_single_testcase returned
    writes,             \* (resource, testcase number) pairs: who modified what
    \* ---- gen_patch.py
    ppc,                \* position inside patch_all_findings
    findings,           \* the loaded findings list
    fpos,               \* index of the finding the loop is at
    patch_stats,        \* the stats dict of patch_all_findings
    files,              \* path -> content of the files findings point at
    requests,           \* patch prompts sent to the LLM, in order
    attempts,           \* finding index -> [llm, write, commit] attempt counts
    patch_commits,      \* messages of the patches committed and pushed
    \* ---- gen_commitHistory.py / vcc_intro.py
    gpc,                \* position inside build_project / generate_commits
    commits,            \* the parsed (message, code) steps
    step_idx,           \* steps applied so far
    current_code,       \* _apply_commits' accumulator
    tracked_file,       \* content of the tracked main file (output_path)
    repo_log,           \* commits of the repository, oldest first
    apply_result,       \* what generate_commits returned
    original_code,      \* _apply_commits' original_code (the main file as read)
    pushes,             \* outcome of the push attempted after each step
    \* ---- a function applied on its own
    fpc,                \* "idle", "call" before and "done" after the application
    args,               \* the function's argument
    returned              \* what it returned

pipeVars == <<parsed_juliet, range, testcase_dirs, idx, pc, stats, completed_steps,
              findings_file, generate_commits_result, interrupted, processed,
              active, stage_log, returned_steps, writes>>
patchVars == <<ppc, findings, fpos, patch_stats, files, requests, attempts,
               patch_commits>>
commitVars == <<gpc, commits, step_idx, current_code, tracked_file, repo_log,
                apply_result, original_code, pushes>>
callVars == <<fpc, args, returned>>
vars == <<pipeVars, patchVars, commitVars, callVars>>

\* Python's None
None == "None"

----------------------------------------------------------------------------
\* Bounds of the model

\* at most this many testcase-N directories exist
MaxTestcases == 2
\* at most this many findings in one findings file
MaxFindings == 2
\* at most this many findings in a file the scanner leaves during a pipeline run
MaxScannerFindings == 1
\* at most this many parsed commit steps
MaxSteps == 3
\* the parts of an LLM response
MaxParts == 3
\* the lexemes of a snippet given to is_complete_java_file
MaxSnippet == 4
\* the digits of a CWE id
MaxDigits == 3
\* the children of the root of manifest.xml
MaxRecords == 2
\* the target files of the CSV file
MaxTargets == 3
\* at most this many steps in an answer when generate_commits runs on its own
MaxAloneSteps == 2

\* The numbers N of the directories that may exist.  "10" sorts before "2" as
\* text and after it as a number.
TestcaseNumbers == {1, 2, 10}

----------------------------------------------------------------------------
\* Directory names and their order (pipe_main.py)

RECURSIVE Decimal(_)
\* f"testcase-{count}": the decimal digits of count, most significant first
Decimal(n) == IF n < 10 THEN <<n>> ELSE Append(Decimal(n \div 10), n % 10)

RECURSIVE IntOf(_)
\* int(x.split("-")[-1]) on the digits of the suffix
IntOf(ds) == IF Len(ds) = 0 THEN 0
             ELSE 10 * IntOf(SubSeq(ds, 1, Len(ds) - 1)) + ds[Len(ds)]

RECURSIVE LexLeq(_, _)
\* text order of two digit strings (what sort() without a key would use)
LexLeq(a, b) ==
    IF Len(a) = 0 THEN TRUE
    ELSE IF Len(b) = 0 THEN FALSE
    ELSE IF a[1] # b[1] THEN a[1] < b[1]
    ELSE LexLeq(Tail(a), Tail(b))

\* key=lambda x: int(x.split("-")[-1]) : the order sort() uses
KeyLeq(a, b) == IntOf(a) <= IntOf(b)

RECURSIVE InsertSorted(_, _)
\* x placed after the last element not greater than it (sort() is stable)
InsertSorted(x, s) ==
    IF Len(s) = 0 THEN <<x>>
    ELSE IF KeyLeq(s[Len(s)], x) THEN Append(s, x)
    ELSE Append(InsertSorted(x, SubSeq(s, 1, Len(s) - 1)), s[Len(s)])

RECURSIVE SortDirs(_)
\* testcase_dirs.sort(key=...)
SortDirs(s) == IF Len(s) = 0 THEN <<>>
               ELSE InsertSorted(s[Len(s)], SortDirs(SubSeq(s, 1, Len(s) - 1)))

\* Optional[int]: None is the empty set, the number n is {n}
NoNumber == {}
NumberOf(x) == CHOOSE n \in x : TRUE

RECURSIVE FilterTestcaseRange(_, _, _)
\* keeps the order, drops what is outside [start, end]
FilterTestcaseRange(s, start, end) ==
    IF Len(s) = 0 THEN <<>>
    ELSE LET num == IntOf(s[1])
             rest == FilterTestcaseRange(Tail(s), start, end)
         IN IF start # NoNumber /\ num < NumberOf(start) THEN rest
            ELSE IF end # NoNumber /\ num > NumberOf(end) THEN rest
            ELSE <<s[1]>> \o rest

\* the listings glob.glob may return for a set of directories: any order
Listings(S) == {s \in [1..Cardinality(S) -> S] : \A i, j \in 1..Cardinality(S) :
                    i # j => s[i] # s[j]}

----------------------------------------------------------------------------
\* Findings (gen_patch.py)

\* JSON values of a finding's fields
JStr(s) == [t |-> "str", v |-> s]
JInt(n) == [t |-> "int", v |-> n]
JNull == [t |-> "null"]

\* Python truthiness of a JSON value: None, "" and 0 are false
Truthy(x) == CASE x.t = "null" -> FALSE
               [] x.t = "str" -> x.v # ""
               [] x.t = "int" -> x.v # 0

\* finding.get(key): the value, or None when the key is absent
Get(finding, key) == IF key \in DOMAIN finding THEN finding[key] ELSE JNull

\* Python's  a or b
Or(a, b) == IF Truthy(a) THEN a ELSE b

\* file_path = get("file_path") or get("filepath") or get("path") or get("filePath")
FilePathOf(finding) ==
    Or(Get(finding, "file_path"),
       Or(Get(finding, "filepath"),
          Or(Get(finding, "path"), Get(finding, "filePath"))))

\* vuln_line = get("line") or get("line_number")
VulnLineOf(finding) == Or(Get(finding, "line"), Get(finding, "line_number"))

\* (mutant) only the canonical name is read
CweIdOfCanonicalOnly(finding) == Get(finding, "cwe_id")

\* cwe_id = get("cwe_id") or get("cweId") or get("cwe")
CweIdOf(finding) ==
    Or(Get(finding, "cwe_id"), Or(Get(finding, "cweId"), Get(finding, "cwe")))

\* (mutant) only the file path is required
IsCompleteFindingPathOnly(finding) == Truthy(FilePathOf(finding))

\* all([file_path, vuln_line, cwe_id])
IsCompleteFinding(finding) ==
    Truthy(FilePathOf(finding)) /\ Truthy(VulnLineOf(finding))
        /\ Truthy(CweIdOf(finding))

\* The findings a scanner may report: canonical names, alias names, a zero
\* line, a missing CWE id, and a path that is not on disk.
FindingPool == {
    [file_path |-> JStr("A.java"), line |-> JInt(10), cwe_id |-> JStr("CWE89")],
    [filepath |-> JStr("A.java"), line_number |-> JInt(12), cweId |-> JStr("CWE78")],
    [file_path |-> JStr("A.java"), line |-> JInt(0), cwe_id |-> JStr("CWE89")],
    [path |-> JStr("B.java"), line |-> JInt(3)],
    [path |-> JStr("Gone.java"), line |-> JInt(7), cwe |-> JStr("CWE113")] }

RECURSIVE SeqsUpTo(_, _)
\* the sequences over S of length at most n
SeqsUpTo(S, n) ==
    IF n = 0 THEN {<<>>}
    ELSE LET shorter == SeqsUpTo(S, n - 1)
         IN shorter \cup {Append(s, x) : s \in shorter, x \in S}

\* what json.load may find in a findings file: a list of objects, or text
\* that is no JSON (load_findings then raises)
Malformed == [json |-> "invalid"]
JsonArray(items) == [json |-> "array", items |-> items]
FindingsFiles == {JsonArray(s) : s \in SeqsUpTo(FindingPool, MaxFindings)}
                     \cup {Malformed}
ScannerFiles == {JsonArray(s) : s \in SeqsUpTo(FindingPool, MaxScannerFindings)}
                    \cup {Malformed}

\* a findings path: None, or the path of a file holding content
NoFile == [path |-> None]
FileWith(content) == [path |-> "findings.json", content |-> content]

\* the files of a project before any patch
OriginalFiles == [p \in {"A.java", "B.java"} |-> "original"]

\* the code the LLM may answer with (after extract_code_from_response)
PatchedCodes == {"patched1", "patched2"}

----------------------------------------------------------------------------
\* Java text (gen_commitHistory.py).  A text is a sequence of lexemes:
\*   "/*" "*/" "//"  comment marks      "nl" "sp"  newline, blank
\*   "class" "import" "package" "word"  runs of word characters
\*   ";" "{" "}"                        punctuation
\* Two adjacent word lexemes read as one longer word.

WordLike(t) == t \in {"class", "import", "package", "word"}
Space(t) == t \in {"sp", "nl"}

\* the first position from p on where s does not hold white space
SkipSpace(s, p) ==
    IF \E k \in p..Len(s) : ~Space(s[k])
    THEN CHOOSE k \in p..Len(s) : ~Space(s[k]) /\ \A m \in p..(k - 1) : Space(s[m])
    ELSE Len(s) + 1

\* the first position from p on where s holds t (Len(s) + 1 when none)
Find(s, p, t) ==
    IF \E k \in p..Len(s) : s[k] = t
    THEN CHOOSE k \in p..Len(s) : s[k] = t /\ \A m \in p..(k - 1) : s[m] # t
    ELSE Len(s) + 1

RECURSIVE StripBlockComments(_)
\* re.sub(r"(?s)/\*.*?\*/", "", code_snippet)
StripBlockComments(s) ==
    IF Len(s) = 0 THEN <<>>
    ELSE IF s[1] = "/*" /\ Find(s, 2, "*/") <= Len(s)
    THEN StripBlockComments(SubSeq(s, Find(s, 2, "*/") + 1, Len(s)))
    ELSE <<s[1]>> \o StripBlockComments(Tail(s))

\* (mutant) line comments are kept
KeepLineComments(s) == s

RECURSIVE StripLineComments(_)
\* re.sub(r"//.*", "", cleaned): up to, not including, the end of the line
StripLineComments(s) ==
    IF Len(s) = 0 THEN <<>>
    ELSE IF s[1] = "//"
    THEN StripLineComments(SubSeq(s, Find(s, 1, "nl"), Len(s)))
    ELSE <<s[1]>> \o StripLineComments(Tail(s))

RECURSIVE StripPackageImports(_, _)
\* re.sub(r"^\s*(package|import)[^;]+;\s*", "", cleaned, flags=re.MULTILINE),
\* scanning s from position p
StripPackageImports(s, p) ==
    IF p > Len(s) THEN <<>>
    ELSE LET k == SkipSpace(s, p)
             j == Find(s, k + 2, ";")
             matches == /\ p = 1 \/ s[p - 1] = "nl"
                        /\ k + 1 <= Len(s)
                        /\ s[k] \in {"package", "import"}
                        /\ s[k + 1] # ";"
                        /\ j <= Len(s)
         IN IF matches THEN StripPackageImports(s, SkipSpace(s, j + 1))
            ELSE <<s[p]>> \o StripPackageImports(s, p + 1)

\* re.search(r'\bclass\s+\w+', cleaned) is not None
HasClassDeclaration(s) ==
    \E i \in 1..Len(s) :
        /\ s[i] = "class"
        /\ i = 1 \/ ~WordLike(s[i - 1])
        /\ i + 1 <= Len(s) /\ Space(s[i + 1])
        /\ SkipSpace(s, i + 1) <= Len(s)
        /\ WordLike(s[SkipSpace(s, i + 1)])

\* CommitHistoryGenerator.is_complete_java_file
is_complete_java_file(code_snippet) ==
    HasClassDeclaration(
        StripPackageImports(StripLineComments(StripBlockComments(code_snippet)), 1))

----------------------------------------------------------------------------
\* The orchestrator (pipe_main.py)

Stages == <<"commit_history", "cwe_analysis", "patch_generation">>
StageSet == {Stages[k] : k \in 1..3}

\* PipelineStats()
ZeroStats == [total_testcases |-> 0,
              commit_history_success |-> 0, commit_history_failed |-> 0,
              cwe_analysis_success |-> 0, cwe_analysis_failed |-> 0,
              patch_success |-> 0, patch_failed |-> 0]

\* start_testcase / end_testcase of run_pipeline: None (as main() calls it) or 2
RangeChoices == {NoNumber, {2}}

\* (mutant) one project name for every testcase
ProjectNameFixed(testcase_num) == <<"testcase-">> \o Decimal(0) \o <<"-commits">>

\* project_name = f"testcase-{testcase_num}-commits"
ProjectName(testcase_num) == <<"testcase-">> \o Decimal(testcase_num) \o <<"-commits">>

\* What the processing of a testcase modifies on disk
ProjectDir(num) == [kind |-> "project_dir", name |-> ProjectName(num)]
WorkflowFile(num) == [kind |-> "workflow_file", name |-> ProjectName(num)]
Repository == [kind |-> "repository", name |-> <<"commit_repo_dir">>]
WorkflowsDir == [kind |-> "workflows_dir", name |-> <<"commit_repo_dir">>]
TempTestDir == [kind |-> "temp_test_dir", name |-> <<"./_temp_generated_tests">>]

\* build_project up to and including the "Initial project setup" commit
SetupWrites(num) == {ProjectDir(num), Repository, WorkflowsDir, WorkflowFile(num)}

\* the testcase being processed
CurrentTestcase == processed[Len(processed)]

Wrote(resources, num) == {[res |-> r, by |-> num] : r \in resources}

\* the list process_single_testcase returned for testcase num, recorded
Returned(map, num, steps) ==
    [n \in DOMAIN map \cup {num} |-> IF n = num THEN steps ELSE map[n]]

\* a stage is called for testcase num
Called(log, num, stage) ==
    [log EXCEPT ![num] = Append(@, [stage |-> stage, result |-> "running",
                                    file |-> FALSE])]

\* the stage called last for testcase num returns result (and, for the CWE
\* analysis, a findings path or None)
ReturnedFrom(log, num, result, file) ==
    LET last == Len(log[num])
    IN [log EXCEPT ![num][last] = [@ EXCEPT !.result = result, !.file = file]]

\* Python's str(bool)
BoolStr(b) == IF b THEN "True" ELSE "False"

\* (mutant) the loop takes the first directory again
TestcaseAtFirst(i) == IntOf(testcase_dirs[1])

\* the testcase the loop takes at position i: int(testcase_dir.split("-")[-1])
TestcaseAt(i) == IntOf(testcase_dirs[i])

\* (mutant) the loop does not wait for the stage it started
LoopReadyEarly == pc \in {"loop", "step1", "step2", "step3"}

\* the loop is between iterations: nothing of a testcase is running
LoopReady == pc = "loop"

\* (mutant) the  else: return completed_steps  after step 1 is missing
ProceedToCweAlways(ok) == TRUE

\* process_single_testcase goes on to run_cwe_analysis only when
\* run_commit_history_generation returned True (else: return completed_steps)
ProceedToCwe(ok) == ok

\* ... and to run_patch_generation only on  success and findings_file
ProceedToPatch(success, file) == success /\ file.path # None

\* where the for loop goes after an iteration that consumed i entries
AfterIteration(i, dirs) == IF i < Len(dirs) THEN "loop" ELSE "summary"

\* How run_commit_builder(...) can end, seen from run_commit_history_generation
CommitHistoryOutcomes ==
    {"no_main_file", "build_raised", "generate_commits_false", "generate_commits_true"}

\* lines 101-113: the stage reports success as soon as run_commit_builder
\* returns; build_project drops the value generate_commits returned
CommitHistoryOk(outcome) ==
    outcome \in {"generate_commits_false", "generate_commits_true"}

\* the counter run_commit_history_generation increments
CommitHistoryStats(st, ok) ==
    IF ok THEN [st EXCEPT !.commit_history_success = @ + 1]
    ELSE [st EXCEPT !.commit_history_failed = @ + 1]

\* (mutant) a failure path of run_cwe_analysis forgets its counter
CweAnalysisStatsSuccessOnly(st, ok) ==
    IF ok THEN [st EXCEPT !.cwe_analysis_success = @ + 1] ELSE st

\* the counter run_cwe_analysis increments
CweAnalysisStats(st, ok) ==
    IF ok THEN [st EXCEPT !.cwe_analysis_success = @ + 1]
    ELSE [st EXCEPT !.cwe_analysis_failed = @ + 1]

\* (mutant) success is counted only when some finding was patched
PatchStatsByFindings(st, ok) ==
    IF ok /\ patch_stats.patched > 0 THEN [st EXCEPT !.patch_success = @ + 1]
    ELSE [st EXCEPT !.patch_failed = @ + 1]

\* the counter run_patch_generation increments
PatchStats(st, ok) ==
    IF ok THEN [st EXCEPT !.patch_success = @ + 1]
    ELSE [st EXCEPT !.patch_failed = @ + 1]

\* How run_cwe_analysis can end: Maven fails, the scanner fails or writes no
\* file, something raises, or the scanner leaves a findings file
CweOutcomes == {"compile_failed", "scanner_failed", "raised", "findings"}

\* the patch loop's variables outside patch_all_findings
PatchIdle ==
    /\ ppc = "idle"
    /\ findings = <<>>
    /\ fpos = 0
    /\ patch_stats = [total |-> 0, patched |-> 0, failed |-> 0]
    /\ files = OriginalFiles
    /\ requests = <<>>
    /\ attempts = <<>>
    /\ patch_commits = <<>>

\* the commit-history variables outside build_project
CommitsIdle ==
    /\ gpc = "idle"
    /\ commits = <<>>
    /\ step_idx = 0
    /\ current_code = <<>>
    /\ tracked_file = <<>>
    /\ repo_log = <<>>
    /\ apply_result = None
    /\ original_code = <<>>
    /\ pushes = <<>>

\* no function is applied on its own
CallIdle ==
    /\ fpc = "idle"
    /\ args = <<>>
    /\ returned = <<>>

Init ==
    /\ parsed_juliet \in {S \in SUBSET TestcaseNumbers : Cardinality(S) <= MaxTestcases}
    /\ range = <<NoNumber, NoNumber>>
    /\ testcase_dirs = <<>>
    /\ idx = 0
    /\ pc = "start"
    /\ stats = ZeroStats
    /\ completed_steps = <<>>
    /\ findings_file = NoFile
    /\ generate_commits_result = [n \in TestcaseNumbers |-> None]
    /\ interrupted = FALSE
    /\ processed = <<>>
    /\ active = {}
    /\ stage_log = [n \in TestcaseNumbers |-> <<>>]
    /\ returned_steps = [n \in {} |-> <<>>]
    /\ writes = {}
    /\ PatchIdle
    /\ CommitsIdle
    /\ CallIdle

\* run_pipeline up to the loop: find, sort, filter, count
RunPipeline ==
    /\ pc = "start"
    /\ \E listing \in Listings({Decimal(n) : n \in parsed_juliet}),
          start \in RangeChoices, end \in RangeChoices :
         LET found == SortDirs(listing)
             selected == IF start # NoNumber \/ end # NoNumber
                         THEN FilterTestcaseRange(found, start, end)
                         ELSE found
         IN IF found = <<>>
            THEN /\ pc' = "done"
                 /\ UNCHANGED <<range, testcase_dirs, stats>>
            ELSE /\ range' = <<start, end>>
                 /\ testcase_dirs' = selected
                 /\ stats' = [stats EXCEPT !.total_testcases = Len(selected)]
                 /\ pc' = AfterIteration(0, selected)
    /\ UNCHANGED <<parsed_juliet, idx, completed_steps, findings_file,
                   generate_commits_result, interrupted, processed, active,
                   stage_log, returned_steps, writes>>
    /\ UNCHANGED <<patchVars, commitVars, callVars>>

\* the loop takes the next directory; process_single_testcase starts and
\* calls run_commit_history_generation
StartTestcase ==
    /\ LoopReady
    /\ idx < Len(testcase_dirs)
    /\ LET testcase_num == TestcaseAt(idx + 1)
       IN /\ idx' = idx + 1
          /\ processed' = Append(processed, testcase_num)
          /\ completed_steps' = <<>>
          /\ findings_file' = NoFile
          /\ active' = active \cup {<<testcase_num, "commit_history">>}
          /\ stage_log' = Called(stage_log, testcase_num, "commit_history")
          /\ pc' = "step1"
    /\ UNCHANGED <<parsed_juliet, range, testcase_dirs, stats, interrupted,
                   generate_commits_result, returned_steps, writes>>
    /\ UNCHANGED <<patchVars, commitVars, callVars>>

\* run_commit_history_generation returns; process_single_testcase either
\* calls run_cwe_analysis or returns its list
RunCommitHistoryGeneration ==
    /\ pc = "step1"
    /\ \E outcome \in CommitHistoryOutcomes, committed \in BOOLEAN, tested \in BOOLEAN :
         LET num == CurrentTestcase
             ok == CommitHistoryOk(outcome)
             steps == IF ok THEN Append(completed_steps, "commit_history")
                      ELSE completed_steps
             touched ==
                 CASE outcome = "no_main_file" -> {}
                   [] outcome = "build_raised" ->
                        {ProjectDir(num)}
                        \cup (IF tested THEN {TempTestDir} ELSE {})
                        \cup (IF committed THEN SetupWrites(num) ELSE {})
                   [] OTHER ->
                        SetupWrites(num) \cup (IF tested THEN {TempTestDir} ELSE {})
         IN /\ stats' = CommitHistoryStats(stats, ok)
            /\ generate_commits_result' =
                 [generate_commits_result EXCEPT ![num] =
                     CASE outcome = "generate_commits_false" -> "False"
                       [] outcome = "generate_commits_true" -> "True"
                       [] OTHER -> None]
            /\ writes' = writes \cup Wrote(touched, num)
            /\ completed_steps' = steps
            /\ IF ProceedToCwe(ok)
               THEN /\ active' = (active \ {<<num, "commit_history">>})
                                     \cup {<<num, "cwe_analysis">>}
                    /\ stage_log' = Called(ReturnedFrom(stage_log, num, BoolStr(ok), FALSE),
                                           num, "cwe_analysis")
                    /\ pc' = "step2"
                    /\ UNCHANGED returned_steps
               ELSE /\ active' = active \ {<<num, "commit_history">>}
                    /\ stage_log' = ReturnedFrom(stage_log, num, BoolStr(ok), FALSE)
                    /\ returned_steps' = Returned(returned_steps, num, steps)
                    /\ pc' = AfterIteration(idx, testcase_dirs)
    /\ UNCHANGED <<parsed_juliet, range, testcase_dirs, idx, findings_file,
                   interrupted, processed>>
    /\ UNCHANGED <<patchVars, commitVars, callVars>>

\* run_cwe_analysis returns; process_single_testcase either calls
\* run_patch_generation (which enters patch_all_findings) or returns its list
RunCweAnalysis ==
    /\ pc = "step2"
    /\ \E outcome \in CweOutcomes, content \in ScannerFiles :
         LET num == CurrentTestcase
             success == outcome = "findings"
             file == IF success THEN FileWith(content) ELSE NoFile
             ok == ProceedToPatch(success, file)
             steps == IF ok THEN Append(completed_steps, "cwe_analysis")
                      ELSE completed_steps
         IN /\ stats' = CweAnalysisStats(stats, success)
            /\ findings_file' = file
            /\ writes' = writes \cup Wrote({ProjectDir(num)}, num)
            /\ completed_steps' = steps
            /\ IF ok
               THEN /\ active' = (active \ {<<num, "cwe_analysis">>})
                                     \cup {<<num, "patch_generation">>}
                    /\ stage_log' = Called(ReturnedFrom(stage_log, num, BoolStr(success),
                                                        file.path # None),
                                           num, "patch_generation")
                    /\ pc' = "step3"
                    /\ ppc' = "load"
                    /\ UNCHANGED returned_steps
               ELSE /\ active' = active \ {<<num, "cwe_analysis">>}
                    /\ stage_log' = ReturnedFrom(stage_log, num, BoolStr(success),
                                                 file.path # None)
                    /\ returned_steps' = Returned(returned_steps, num, steps)
                    /\ pc' = AfterIteration(idx, testcase_dirs)
                    /\ UNCHANGED ppc
    /\ UNCHANGED <<parsed_juliet, range, testcase_dirs, idx,
                   generate_commits_result, interrupted, processed>>
    /\ UNCHANGED <<findings, fpos, patch_stats, files, requests, attempts,
                   patch_commits>>
    /\ UNCHANGED <<commitVars, callVars>>

\* load_findings and the prelude of patch_all_findings
LoadFindings ==
    /\ ppc = "load"
    /\ IF findings_file.content = Malformed
       THEN /\ ppc' = "raised"
            /\ UNCHANGED <<findings, fpos, patch_stats, attempts>>
       ELSE LET loaded == findings_file.content.items
            IN /\ findings' = loaded
               /\ patch_stats' = [total |-> Len(loaded), patched |-> 0, failed |-> 0]
               /\ attempts' = [i \in 1..Len(loaded) |->
                                  [llm |-> 0, write |-> 0, commit |-> 0]]
               /\ fpos' = IF loaded = <<>> THEN 0 ELSE 1
               /\ ppc' = IF loaded = <<>> THEN "returned" ELSE "loop"
    /\ UNCHANGED <<files, requests, patch_commits>>
    /\ UNCHANGED <<pipeVars, commitVars, callVars>>

\* How the body of the loop can end for a complete finding
\*   read_failed   open(file_path) raises in generate_patch
\*   llm_raised    the chat completion raises
\*   add_failed    git add exits non-zero (CalledProcessError)
\*   commit_failed git commit exits non-zero (CalledProcessError)
\*   push_failed   git push exits non-zero (CalledProcessError)
\*   git_raised    subprocess.run raises something else
\*   pushed        the patch is committed and pushed
BodyOutcomes ==
    {"llm_raised", "add_failed", "commit_failed", "push_failed", "git_raised",
     "pushed"}

\* (mutant) the file gets its former content back when the patch is not pushed
FileAfterRollback(outcome, current, patched_code) ==
    IF outcome = "pushed" THEN patched_code ELSE current

\* the content of the target file after the loop body: apply_patch has
\* overwritten it unless generate_patch raised, and nothing writes it again
FileAfter(outcome, current, patched_code) ==
    IF outcome = "llm_raised" THEN current ELSE patched_code

\* (mutant) the request is built from the content before any patch
ReadOriginal(fs, file_path) == OriginalFiles[file_path]

\* generate_patch: with open(file_path, "r") as f: code = f.read()
ReadFile(fs, file_path) == fs[file_path]

\* (mutant) the except branch forgets  stats["failed"] += 1
CountFindingPatchedOnly(st, patched) ==
    IF patched THEN [st EXCEPT !.patched = @ + 1] ELSE st

\* the stats entry one pass through the loop body increments
CountFinding(st, patched) ==
    IF patched THEN [st EXCEPT !.patched = @ + 1]
    ELSE [st EXCEPT !.failed = @ + 1]

\* where the loop goes after the finding at position i
AfterFinding(i, list) == IF i < Len(list) THEN "loop" ELSE "returned"

\* one pass of  for finding in findings
PatchFinding ==
    /\ ppc = "loop"
    /\ fpos \in 1..Len(findings)
    /\ LET finding == findings[fpos]
           file_path == FilePathOf(finding)
           vuln_line == VulnLineOf(finding)
           cwe_id == CweIdOf(finding)
       IN IF ~IsCompleteFinding(finding)
          THEN \* skipping incomplete finding
               /\ patch_stats' = CountFinding(patch_stats, FALSE)
               /\ UNCHANGED <<files, requests, attempts, patch_commits, writes>>
          ELSE IF file_path.v \notin DOMAIN files
          THEN \* generate_patch: open() raises
               /\ patch_stats' = CountFinding(patch_stats, FALSE)
               /\ UNCHANGED <<files, requests, attempts, patch_commits, writes>>
          ELSE \E outcome \in BodyOutcomes, patched_code \in PatchedCodes :
               LET asked == [file |-> file_path.v, line |-> vuln_line,
                             cwe |-> cwe_id,
                             code |-> ReadFile(files, file_path.v)]
                   written == outcome # "llm_raised"
                   commit_msg == <<"Security patch: ", cwe_id.v, " in ", file_path.v>>
               IN /\ requests' = Append(requests, asked)
                  /\ files' = [files EXCEPT ![file_path.v] =
                                   FileAfter(outcome, @, patched_code)]
                  /\ attempts' = [attempts EXCEPT ![fpos] =
                                     [llm |-> @.llm + 1,
                                      write |-> @.write + (IF written THEN 1 ELSE 0),
                                      commit |-> @.commit + (IF written THEN 1 ELSE 0)]]
                  /\ patch_commits' = IF outcome = "pushed"
                                      THEN Append(patch_commits, commit_msg)
                                      ELSE patch_commits
                  /\ patch_stats' = CountFinding(patch_stats, outcome = "pushed")
                  /\ writes' = IF written /\ pc = "step3"
                               THEN writes \cup Wrote({Repository}, CurrentTestcase)
                               ELSE writes
    /\ fpos' = fpos + 1
    /\ ppc' = AfterFinding(fpos, findings)
    /\ UNCHANGED findings
    /\ UNCHANGED <<parsed_juliet, range, testcase_dirs, idx, pc, stats,
                   completed_steps, findings_file, generate_commits_result,
                   interrupted, processed, active, stage_log, returned_steps>>
    /\ UNCHANGED <<commitVars, callVars>>

\* patch_all_findings has returned or raised: run_patch_generation counts it
\* and process_single_testcase returns its list
RunPatchGeneration ==
    /\ pc = "step3"
    /\ ppc \in {"returned", "raised"}
    /\ LET num == CurrentTestcase
           ok == ppc = "returned"
           steps == IF ok THEN Append(completed_steps, "patch_generation")
                    ELSE completed_steps
       IN /\ stats' = PatchStats(stats, ok)
          /\ completed_steps' = steps
          /\ returned_steps' = Returned(returned_steps, num, steps)
          /\ stage_log' = ReturnedFrom(stage_log, num, BoolStr(ok), FALSE)
          /\ active' = active \ {<<num, "patch_generation">>}
          /\ pc' = AfterIteration(idx, testcase_dirs)
    /\ ppc' = "idle"
    /\ findings' = <<>>
    /\ fpos' = 0
    /\ patch_stats' = [total |-> 0, patched |-> 0, failed |-> 0]
    /\ files' = OriginalFiles
    /\ requests' = <<>>
    /\ attempts' = <<>>
    /\ patch_commits' = <<>>
    /\ UNCHANGED <<parsed_juliet, range, testcase_dirs, idx, findings_file,
                   generate_commits_result, interrupted, processed, writes>>
    /\ UNCHANGED <<commitVars, callVars>>

\* a KeyboardInterrupt arrives while a stage runs: the loop breaks
Interrupt ==
    /\ pc \in {"step1", "step2", "step3"}
    /\ interrupted' = TRUE
    /\ active' = {}
    /\ pc' = "summary"
    /\ ppc' = "idle"
    /\ UNCHANGED <<parsed_juliet, range, testcase_dirs, idx, stats,
                   completed_steps, findings_file, generate_commits_result,
                   processed, stage_log, returned_steps, writes>>
    /\ UNCHANGED <<findings, fpos, patch_stats, files, requests, attempts,
                   patch_commits>>
    /\ UNCHANGED <<commitVars, callVars>>

\* print_summary, after the loop
PrintSummary ==
    /\ pc = "summary"
    /\ pc' = "done"
    /\ UNCHANGED <<parsed_juliet, range, testcase_dirs, idx, stats,
                   completed_steps, findings_file, generate_commits_result,
                   interrupted, processed, active, stage_log, returned_steps,
                   writes>>
    /\ UNCHANGED <<patchVars, commitVars, callVars>>

Next ==
    \/ RunPipeline
    \/ StartTestcase
    \/ RunCommitHistoryGeneration
    \/ RunCweAnalysis
    \/ LoadFindings
    \/ PatchFinding
    \/ RunPatchGeneration
    \/ Interrupt
    \/ PrintSummary

Spec == Init /\ [][Next]_vars

----------------------------------------------------------------------------
\* run_pipeline when process_single_testcase can raise
\*
\* The three stages return a boolean whatever happens inside them (their
\* bodies are wrapped in try / except Exception), and Spec covers the runs
\* where nothing else fails.  What is left of process_single_testcase outside
\* the stages is its opening statements, lines 357-360; SpecErrors adds the
\* runs where they raise, which only the handler of run_pipeline catches.

\* (mutant) the handler leaves the loop as the interrupt handler does
AfterUnexpectedErrorBreak(i, dirs) == "summary"

\* lines 416-418: except Exception: print the error, then continue
AfterUnexpectedError(i, dirs) == AfterIteration(i, dirs)

\* one iteration of the loop of run_pipeline in which process_single_testcase
\* raises an exception before it calls its first stage
UnexpectedError ==
    /\ LoopReady
    /\ idx < Len(testcase_dirs)
    /\ LET testcase_num == TestcaseAt(idx + 1)
       IN /\ idx' = idx + 1
          /\ processed' = Append(processed, testcase_num)
          /\ pc' = AfterUnexpectedError(idx + 1, testcase_dirs)
    /\ UNCHANGED <<parsed_juliet, range, testcase_dirs, stats, interrupted,
                   completed_steps, findings_file, active, stage_log,
                   generate_commits_result, returned_steps, writes>>
    /\ UNCHANGED <<patchVars, commitVars, callVars>>

NextErrors ==
    \/ RunPipeline
    \/ StartTestcase
    \/ UnexpectedError
    \/ RunCommitHistoryGeneration
    \/ RunCweAnalysis
    \/ LoadFindings
    \/ PatchFinding
    \/ RunPatchGeneration
    \/ Interrupt
    \/ PrintSummary

SpecErrors == Init /\ [][NextErrors]_vars

----------------------------------------------------------------------------
\* patch_all_findings on its own (gen_patch.py run as a script)

InitPatch ==
    /\ parsed_juliet = {}
    /\ range = <<NoNumber, NoNumber>>
    /\ testcase_dirs = <<>>
    /\ idx = 0
    /\ pc = "patcher"
    /\ stats = ZeroStats
    /\ completed_steps = <<>>
    /\ findings_file \in {FileWith(c) : c \in FindingsFiles}
    /\ generate_commits_result = [n \in TestcaseNumbers |-> None]
    /\ interrupted = FALSE
    /\ processed = <<>>
    /\ active = {}
    /\ stage_log = [n \in TestcaseNumbers |-> <<>>]
    /\ returned_steps = [n \in {} |-> <<>>]
    /\ writes = {}
    /\ ppc = "load"
    /\ findings = <<>>
    /\ fpos = 0
    /\ patch_stats = [total |-> 0, patched |-> 0, failed |-> 0]
    /\ files = OriginalFiles
    /\ requests = <<>>
    /\ attempts = <<>>
    /\ patch_commits = <<>>
    /\ CommitsIdle
    /\ CallIdle

NextPatch ==
    \/ LoadFindings
    \/ PatchFinding

SpecPatch == InitPatch /\ [][NextPatch]_vars

----------------------------------------------------------------------------
\* build_project's setup commit and the commit-history synthesizer
\* (vcc_intro.py, gen_commitHistory.py)

\* The main file as build_project copies it, with and without a package line
OriginalCodes ==
    { <<"package", "sp", "word", ";", "nl", "class", "sp", "word", "{", "}">>,
      <<"class", "sp", "word", "{", "}">> }

\* The code of a step: a whole class, a method fragment, and a fragment whose
\* only class declaration is in a comment
CodePool ==
    { <<"class", "sp", "word", "{", "}">>,
      <<"word", "{", "}">>,
      <<"//", "class", "sp", "word", "nl", "word", ";">> }

\* The steps parse_gpt_response may return: (message, code) pairs
StepPool == {[message |-> m, code |-> c] : m \in {"Step 2", "Step 1"}, c \in CodePool}

\* the non-empty step lists of length at most MaxSteps
StepLists == SeqsUpTo(StepPool, MaxSteps) \ {<<>>}

\* re.search(r'package\s+([a-zA-Z0-9_.]+);', java_code): the name, or None
parse_package_from_java(java_code) ==
    LET hits == {i \in 1..Len(java_code) :
                    /\ java_code[i] = "package"
                    /\ i + 1 <= Len(java_code) /\ Space(java_code[i + 1])
                    /\ SkipSpace(java_code, i + 1) + 1 <= Len(java_code)
                    /\ WordLike(java_code[SkipSpace(java_code, i + 1)])
                    /\ java_code[SkipSpace(java_code, i + 1) + 1] = ";"}
    IN IF hits = {} THEN None
       ELSE LET i == CHOOSE h \in hits : \A g \in hits : h <= g
            IN java_code[SkipSpace(java_code, i + 1)]

\* commit_msg = f"{package or 'src'}/{filename}: {message}"
CommitMessage(package, message) ==
    <<IF package = None THEN "src" ELSE package, "/", "Main.java", ": ", message>>

\* a commit: its message and the main file's content in its tree
Untracked == <<"(not in the tree)">>
Commit(message, main) == [message |-> message, main |-> main]

\* The files build_project works on.  A file is its name and its code; a
\* path is the sequence of its components.
JavaFile(name, code) == [name |-> name, code |-> code]

\* the name of the main Java file
MainName == "Main.java"

\* what may lie next to the main file in its directory
Neighbours ==
    {JavaFile("Helper.java",
              <<"package", "sp", "word", ";", "nl", "class", "sp", "word", "{", "}">>),
     JavaFile("Helper2.java", <<"class", "sp", "word", "{", "}">>),
     JavaFile("notes.txt", <<"word">>)}

\* what may lie under support_java_dir
SupportFiles ==
    {JavaFile("IO.java", <<"class", "sp", "word", "{", "}">>),
     JavaFile("Base.java",
              <<"package", "sp", "word", ";", "nl", "class", "sp", "word", "{", "}">>),
     JavaFile("readme.txt", <<"word">>)}

\* name.endswith(".java")
EndsWithJava(name) ==
    name \in {MainName, "Helper.java", "Helper2.java", "IO.java", "Base.java"}

\* src_main, src_test = self.create_project_structure(project_dir)
SrcMain == <<"project", "src", "main", "java">>
SrcTest == <<"project", "src", "test", "java">>

\* VulnerabilityProjectBuilder.copy_java_file_to_package: the destination
\* (the package is read by the same pattern as in gen_commitHistory.py)
copy_java_file_to_package(java_file, src_root) ==
    LET package == parse_package_from_java(java_file.code)
    IN IF package # None THEN src_root \o <<package, java_file.name>>
       ELSE src_root \o <<java_file.name>>

\* (mutant) the main file is not told apart from its neighbours
IsCompanionAnyJava(item, main_file) == EndsWithJava(item.name)

\* lines 165-167: a Java file of the directory other than the main file
IsCompanion(item, main_file) ==
    EndsWithJava(item.name) /\ item.name # main_file.name

\* VulnerabilityProjectBuilder.copy_package_companions: the copies made
copy_package_companions(main_file, listing, src_root) ==
    {copy_java_file_to_package(item, src_root) :
        item \in {i \in listing : IsCompanion(i, main_file)}}

\* lines 283-294: files_to_commit
FilesToCommit(main_file, listing, support, generated_test) ==
    {copy_java_file_to_package(f, SrcMain) : f \in {g \in support : EndsWithJava(g.name)}}
        \cup copy_package_companions(main_file, listing, SrcMain)
        \cup {<<"project", "pom.xml">>,
              <<".github", "workflows", "maven-build-project.yml">>}
        \cup (IF generated_test THEN {SrcTest \o <<"MainTest.java">>} ELSE {})

\* repo.git.add(files_to_commit); repo.index.commit("Initial project setup"):
\* the commit holds the main file when its path is among the files added
SetupCommit(files_to_commit, new_main_file, main_code) ==
    Commit(<<"Initial project setup">>,
           IF new_main_file \in files_to_commit THEN main_code ELSE Untracked)

\* "\n\n"
Separator == <<"nl", "nl">>

\* (mutant) every step overwrites
NextCodeOverwrite(current, code, i) == code

\* lines 193-197: the new content of the accumulator
NextCode(current, code, i) ==
    IF is_complete_java_file(code) \/ i = 1 THEN code
    ELSE current \o Separator \o code

\* (mutant) the steps are taken last to first
StepAtReversed(steps, i) == steps[Len(steps) + 1 - i]

\* for idx, (message, code) in enumerate(commits, 1)
StepAt(steps, i) == steps[i]

\* repo.remote(name='origin') raises ValueError, origin.push() returns, or
\* origin.push() raises some other Exception
PushOutcomes == {"no_remote", "pushed", "push_failed"}

\* (mutant) only the missing remote is caught
SwallowedOnlyNoRemote(push) == push # "push_failed"

\* lines 210-217: control reaches the end of the try statement
Swallowed(push) == push \in {"pushed"} \cup {"no_remote"} \cup {"push_failed"}

InitCommits ==
    /\ parsed_juliet = {}
    /\ range = <<NoNumber, NoNumber>>
    /\ testcase_dirs = <<>>
    /\ idx = 0
    /\ pc = "builder"
    /\ stats = ZeroStats
    /\ completed_steps = <<>>
    /\ findings_file = NoFile
    /\ generate_commits_result = [n \in TestcaseNumbers |-> None]
    /\ interrupted = FALSE
    /\ processed = <<>>
    /\ active = {}
    /\ stage_log = [n \in TestcaseNumbers |-> <<>>]
    /\ returned_steps = [n \in {} |-> <<>>]
    /\ writes = {}
    /\ PatchIdle
    /\ gpc = "build"
    /\ commits = <<>>
    /\ step_idx = 0
    /\ current_code = <<>>
    /\ tracked_file \in OriginalCodes
    /\ CallIdle
    /\ repo_log = <<>>
    /\ apply_result = None
    /\ original_code = <<>>
    /\ pushes = <<>>

\* build_project up to the call of gpt_commit_one_file_with_support: the main
\* file is copied but not committed; the setup commit is created unless
\* something raises before it
BuildProject ==
    /\ gpc = "build"
    /\ \E raised \in BOOLEAN, generated_test \in BOOLEAN,
          neighbours \in SUBSET Neighbours, support \in SUBSET SupportFiles :
         LET main_file == JavaFile(MainName, tracked_file)
             listing == {main_file} \cup neighbours
             new_main_file == copy_java_file_to_package(main_file, SrcMain)
             files_to_commit == FilesToCommit(main_file, listing, support,
                                              generated_test)
         IN IF raised
            THEN gpc' = "raised" /\ UNCHANGED repo_log
            ELSE /\ gpc' = "generate"
                 /\ repo_log' = Append(repo_log,
                         SetupCommit(files_to_commit, new_main_file, tracked_file))
    /\ UNCHANGED <<commits, step_idx, current_code, tracked_file, apply_result,
                   original_code, pushes>>
    /\ UNCHANGED <<pipeVars, patchVars, callVars>>

\* generate_commits up to the loop of _apply_commits: the request either
\* raises (return False) or its answer is parsed into steps
GenerateCommits ==
    /\ gpc = "generate"
    /\ \E raised \in BOOLEAN, parsed \in StepLists :
         IF raised
         THEN /\ apply_result' = "False"
              /\ gpc' = "returned"
              /\ UNCHANGED <<commits, original_code>>
         ELSE /\ commits' = parsed
              /\ original_code' = tracked_file
              /\ gpc' = "apply"
              /\ UNCHANGED apply_result
    /\ UNCHANGED <<step_idx, current_code, tracked_file, repo_log, pushes>>
    /\ UNCHANGED <<pipeVars, patchVars, callVars>>

\* one pass of the loop of _apply_commits; after the last step, return True
ApplyCommit ==
    /\ gpc = "apply"
    /\ step_idx < Len(commits)
    /\ \E push \in PushOutcomes :
         LET i == step_idx + 1
             step == StepAt(commits, i)
             code == NextCode(current_code, step.code, i)
             commit_msg == CommitMessage(parse_package_from_java(original_code),
                                         step.message)
         IN /\ current_code' = code
            /\ tracked_file' = code
            /\ repo_log' = Append(repo_log, Commit(commit_msg, code))
            /\ step_idx' = i
            /\ pushes' = Append(pushes, push)
            /\ IF ~Swallowed(push)
               THEN gpc' = "raised" /\ UNCHANGED apply_result
               ELSE IF i = Len(commits)
               THEN gpc' = "returned" /\ apply_result' = "True"
               ELSE UNCHANGED <<gpc, apply_result>>
    /\ UNCHANGED <<commits, original_code>>
    /\ UNCHANGED <<pipeVars, patchVars, callVars>>

NextCommits ==
    \/ BuildProject
    \/ GenerateCommits
    \/ ApplyCommit

SpecCommits == InitCommits /\ [][NextCommits]_vars

----------------------------------------------------------------------------
\* parse_gpt_response (gen_commitHistory.py), on sequences of lexemes
\*
\* Lexemes of a response, besides those of Java text:
\*   "#"  "Commit"  ":"  "java"           as written
\*   "fence"                              three backticks
\*   "0" .. "9"                           one decimal digit
\*   "msgA" "msgB"                        two different words of a message

DigitLexemes == <<"0", "1", "2", "3", "4", "5", "6", "7", "8", "9">>
IsDigit(t) == \E d \in DOMAIN DigitLexemes : DigitLexemes[d] = t

\* f"{i+1}": the digits of n as lexemes
DecimalText(n) == [k \in DOMAIN Decimal(n) |-> DigitLexemes[Decimal(n)[k] + 1]]

\* the first position from p on where s holds no lexeme of T
SkipRun(s, p, T) ==
    IF \E k \in p..Len(s) : s[k] \notin T
    THEN CHOOSE k \in p..Len(s) : s[k] \notin T /\ \A m \in p..(k - 1) : s[m] \in T
    ELSE Len(s) + 1

\* (mutant) nothing is trimmed
StripNothing(s) == s

\* str.strip()
Strip(s) ==
    IF SkipSpace(s, 1) > Len(s) THEN <<>>
    ELSE SubSeq(s, SkipSpace(s, 1),
                CHOOSE b \in 1..Len(s) :
                    ~Space(s[b]) /\ \A m \in (b + 1)..Len(s) : Space(s[m]))

\* a (message, code) pair
Step(message, code) == [message |-> message, code |-> code]

\* \n+```(?:java)?\n at position e: the position after it, 0 when no match
FenceEnd(s, e) ==
    LET k == SkipRun(s, e, {"nl"})
    IN IF k = e \/ k > Len(s) THEN 0
       ELSE IF s[k] # "fence" THEN 0
       ELSE IF k + 2 <= Len(s) /\ s[k + 1] = "java" /\ s[k + 2] = "nl" THEN k + 3
       ELSE IF k + 1 <= Len(s) /\ s[k + 1] = "nl" THEN k + 2
       ELSE 0

NoMatch == [ok |-> FALSE]

\* the element of a one-element set; {f(x) : x \in {e}} computes e once
Only(S) == CHOOSE x \in S : TRUE

RECURSIVE Header(_, _, _, _)
\* #+?\s*Commit\s+(\d+): read from position p on; st tells what has been
\* read, n where the digits start.  The classes of lexemes are disjoint, so
\* the lazy #+? and the greedy \s*, \s+, \d+ read the same runs.
Header(s, p, st, n) ==
    IF p > Len(s) THEN NoMatch
    ELSE IF st = "start"
    THEN IF s[p] = "#" THEN Header(s, p + 1, "hashes", 0) ELSE NoMatch
    ELSE IF st = "hashes"
    THEN IF s[p] = "#" THEN Header(s, p + 1, "hashes", 0)
         ELSE IF Space(s[p]) THEN Header(s, p + 1, "space", 0)
         ELSE IF s[p] = "Commit" THEN Header(s, p + 1, "Commit", 0)
         ELSE NoMatch
    ELSE IF st = "space"
    THEN IF Space(s[p]) THEN Header(s, p + 1, "space", 0)
         ELSE IF s[p] = "Commit" THEN Header(s, p + 1, "Commit", 0)
         ELSE NoMatch
    ELSE IF st = "Commit"
    THEN IF Space(s[p]) THEN Header(s, p + 1, "gap", 0) ELSE NoMatch
    ELSE IF st = "gap"
    THEN IF Space(s[p]) THEN Header(s, p + 1, "gap", 0)
         ELSE IF IsDigit(s[p]) THEN Header(s, p + 1, "digits", p)
         ELSE NoMatch
    ELSE IF IsDigit(s[p]) THEN Header(s, p + 1, "digits", n)
         ELSE IF s[p] = ":" THEN [ok |-> TRUE, num |-> SubSeq(s, n, p - 1), end |-> p + 1]
         ELSE NoMatch

\* the ends e of a message that may start between m0 and m1, paired with the
\* position c where the code then starts: \n+```(?:java)?\n matches at e and
\* a closing fence follows c
MessageEnds(s, m0) ==
    {ec \in {<<e, FenceEnd(s, e)>> : e \in m0..(Len(s) + 1)} :
        ec[2] > 0 /\ \E z \in ec[2]..Len(s) : s[z] = "fence"}

\* the start and end of the message and the start of the code, given the
\* position m1 of the first lexeme after the white space that follows ":".
\* \s* is greedy and gives white space back only when no message end at or
\* after m1 works; then the message is empty and ends as late as possible.
ChosenEnd(m1, ends) ==
    LET late == {x \in ends : x[1] >= m1}
    IN IF late # {}
       THEN LET x == CHOOSE x \in late : \A y \in late : x[1] <= y[1]
            IN <<m1, x[1], x[2]>>
       ELSE LET x == CHOOSE x \in ends : \A y \in ends : x[1] >= y[1]
            IN <<x[1], x[1], x[2]>>

\* #+?\s*Commit\s+(\d+):\s*(.*?)\n+```(?:java)?\n(.*?)``` at position j;
\* the message and the code are lazy
StructuredTail(s, j) ==
    Only({IF ~hd.ok THEN NoMatch
          ELSE Only({IF ends = {} THEN NoMatch
                     ELSE Only({Only({[ok |-> TRUE,
                                       num |-> hd.num,
                                       msg |-> SubSeq(s, c[1], c[2] - 1),
                                       code |-> SubSeq(s, c[3], z - 1),
                                       end |-> z + 1]
                                      : z \in {Find(s, c[3], "fence")}})
                                : c \in {ChosenEnd(SkipSpace(s, hd.end), ends)}})
                     : ends \in {MessageEnds(s, hd.end)}})
          : hd \in {Header(s, j, "start", 0)}})

\* the pattern of line 81 tried at position i: (?:^|\n) then the rest
MatchAt(s, i) ==
    IF i = 1 /\ StructuredTail(s, 1).ok THEN StructuredTail(s, 1)
    ELSE IF i <= Len(s) /\ s[i] = "nl" THEN StructuredTail(s, i + 1)
    ELSE NoMatch

\* lines 86-89: the message of a structured match
StructuredMessage(num, msg) ==
    LET m == IF msg # <<>> THEN Strip(msg) ELSE <<"Step">> \o num
    IN IF m = <<>> THEN <<"Step">> \o num
       ELSE IF m[1] \in {"fence", "/*"} THEN <<"Step">> \o num
       ELSE m

RECURSIVE StructuredMatches(_, _)
\* re.finditer(pattern, response_text, ...) from position pos, lines 84-90
StructuredMatches(s, pos) ==
    Only({IF starts = {} THEN <<>>
          ELSE Only({<<Step(StructuredMessage(r.num, r.msg), Strip(r.code))>>
                         \o StructuredMatches(s, r.end)
                     : r \in {MatchAt(s, CHOOSE x \in starts : \A y \in starts : x <= y)}})
          : starts \in {{i \in pos..(Len(s) + 1) : MatchAt(s, i).ok}}})

\* (mutant) any fence opens a block of the fallback
OpensAnyBlock(s, i) == s[i] = "fence"

\* "```java" at position i
OpensJavaBlock(s, i) == s[i] = "fence" /\ s[i + 1] = "java"

RECURSIVE JavaBlocks(_, _)
\* re.findall(r"```java(.*?)```", response_text, re.DOTALL) from position p
JavaBlocks(s, p) ==
    Only({IF opens = {} THEN <<>>
          ELSE Only({IF iz[2] > Len(s) THEN <<>>
                     ELSE <<SubSeq(s, iz[1] + 2, iz[2] - 1)>> \o JavaBlocks(s, iz[2] + 1)
                     : iz \in {<<i, Find(s, i + 2, "fence")>> :
                                 i \in {x \in opens : \A y \in opens : x <= y}}})
          : opens \in {{i \in p..(Len(s) - 1) : OpensJavaBlock(s, i)}}})

\* (mutant) every fallback step is called "Step 1"
FallbackMessageFirst(i) == <<"Step", "1">>

\* f"Step {i+1}", with i+1 passed
FallbackMessage(i) == <<"Step">> \o DecimalText(i)

\* (mutant) the java blocks are added to the structured matches
parse_gpt_response_all_tiers(response_text) ==
    StructuredMatches(response_text, 1)
        \o [i \in 1..Len(JavaBlocks(response_text, 1)) |->
               Step(FallbackMessage(i), Strip(JavaBlocks(response_text, 1)[i]))]

parse_gpt_response(response_text) ==
    Only({IF commits1 # <<>> THEN commits1
          ELSE Only({IF blocks # <<>>
                     THEN [i \in 1..Len(blocks) |->
                              Step(FallbackMessage(i), Strip(blocks[i]))]
                     ELSE <<Step(<<"Initial implementation">>, Strip(response_text))>>
                     : blocks \in {JavaBlocks(response_text, 1)}})
          : commits1 \in {StructuredMatches(response_text, 1)}})

\* A response is a list of parts, each ending its line:
\*   a line "Commit N: msg", after hashes or not, followed by a fenced block,
\*   a fenced block alone, tagged java or not,
\*   a line of prose.
CodeA == <<"class", "sp", "word", "{", "}">>
CodeB == <<"word", "{", "}">>

CommitPart(hashes, num, msg, tag, code) ==
    [kind |-> "commit", hashes |-> hashes, num |-> num, msg |-> msg,
     tag |-> tag, code |-> code]
FencePart(tag, code) == [kind |-> "fence", tag |-> tag, code |-> code]
TextPart(text) == [kind |-> "text", text |-> text]

PartPool == {
    CommitPart(<<"#", "#", "sp">>, <<"2">>, <<"msgA">>, "java", CodeA),
    CommitPart(<<"#">>, <<"1">>, <<"msgB", "sp", "word">>, "plain", CodeB),
    CommitPart(<<>>, <<"1">>, <<"msgA">>, "java", CodeA),
    CommitPart(<<>>, <<"2">>, <<"msgB", "sp", "word">>, "plain", CodeB),
    CommitPart(<<"#">>, <<"1">>, <<>>, "java", CodeB),
    FencePart("java", CodeA),
    FencePart("java", CodeB),
    FencePart("plain", CodeB),
    TextPart(<<"word", "sp", "word">>),
    TextPart(<<"sp", "word">>) }

\* the responses of at most MaxParts parts
Responses == SeqsUpTo(PartPool, MaxParts)

\* the text of a fenced block: the code on lines of its own
RenderFence(tag, code) ==
    <<"fence">> \o (IF tag = "java" THEN <<"java">> ELSE <<>>) \o <<"nl">>
        \o code \o <<"nl", "fence", "nl">>

RenderPart(part) ==
    IF part.kind = "commit"
    THEN part.hashes \o <<"Commit", "sp">> \o part.num \o <<":">>
             \o (IF part.msg = <<>> THEN <<>> ELSE <<"sp">> \o part.msg)
             \o <<"nl">> \o RenderFence(part.tag, part.code)
    ELSE IF part.kind = "fence" THEN RenderFence(part.tag, part.code)
    ELSE part.text \o <<"nl">>

RECURSIVE Render(_)
\* response.choices[0].message.content
Render(parts) ==
    IF parts = <<>> THEN <<>> ELSE RenderPart(Head(parts)) \o Render(Tail(parts))

\* the orchestrator's variables while a function is applied on its own
PipelineIdle ==
    /\ parsed_juliet = {}
    /\ range = <<NoNumber, NoNumber>>
    /\ testcase_dirs = <<>>
    /\ idx = 0
    /\ pc = "idle"
    /\ stats = ZeroStats
    /\ completed_steps = <<>>
    /\ findings_file = NoFile
    /\ generate_commits_result = [n \in TestcaseNumbers |-> None]
    /\ interrupted = FALSE
    /\ processed = <<>>
    /\ active = {}
    /\ stage_log = [n \in TestcaseNumbers |-> <<>>]
    /\ returned_steps = [n \in {} |-> <<>>]
    /\ writes = {}

InitParse ==
    /\ PipelineIdle
    /\ PatchIdle
    /\ CommitsIdle
    /\ fpc = "call"
    /\ args \in Responses
    /\ returned = <<>>

\* commits = self.parse_gpt_response(response_text)
ParseGptResponse ==
    /\ fpc = "call"
    /\ \E response_text \in {Render(args)} :
         returned' = parse_gpt_response(response_text)
    /\ fpc' = "done"
    /\ UNCHANGED args
    /\ UNCHANGED <<pipeVars, patchVars, commitVars>>

NextParse == ParseGptResponse

SpecParse == InitParse /\ [][NextParse]_vars

-----------------------------------------------------------------------------
\* generate_commits on its own (gen_commitHistory.py), called with a main
\* file that may not exist and a repository that may have no commit yet

\* (mutant) the main file is never looked for
IsFileAlways(main_java_file) == TRUE

\* os.path.isfile(main_java_file)
IsFile(main_java_file) == main_java_file.is_file

\* the commits of the repository at repo_root before the call: none, or the
\* setup commit of build_project
RepoLogs == {<<>>, <<Commit(<<"Initial project setup">>, Untracked)>>}

\* _init_repository: the placeholder commit is created when the head is not
\* valid
InitRepository(log) ==
    IF log = <<>> THEN <<Commit(<<"Initial commit">>, Untracked)>> ELSE log

\* the answers of the request, parsed: at most MaxAloneSteps steps
AloneStepLists == {steps \in StepLists : Len(steps) <= MaxAloneSteps}

InitGenerate ==
    /\ PipelineIdle
    /\ PatchIdle
    /\ gpc = "validate"
    /\ commits = <<>>
    /\ step_idx = 0
    /\ current_code = <<>>
    /\ tracked_file \in OriginalCodes
    /\ repo_log \in RepoLogs
    /\ apply_result = None
    /\ original_code = <<>>
    /\ pushes = <<>>
    /\ fpc = "call"
    /\ \E is_file \in BOOLEAN :
         args = [main_java_file |-> [is_file |-> is_file, code |-> tracked_file],
                 repo_log |-> repo_log]
    /\ returned = [initialized |-> FALSE, requests |-> 0, response |-> "none"]

\* lines 107-109: return False when the main file is not found
ValidateInputs ==
    /\ gpc = "validate"
    /\ IF IsFile(args.main_java_file)
       THEN gpc' = "init" /\ UNCHANGED apply_result
       ELSE gpc' = "returned" /\ apply_result' = "False"
    /\ UNCHANGED <<commits, step_idx, current_code, tracked_file, repo_log,
                   original_code, pushes>>
    /\ UNCHANGED <<pipeVars, patchVars, callVars>>

\* lines 112-118: the support files are gathered and the repository is
\* opened or initialized
OpenRepository ==
    /\ gpc = "init"
    /\ repo_log' = InitRepository(repo_log)
    /\ returned' = [returned EXCEPT !.initialized = TRUE]
    /\ gpc' = "request"
    /\ UNCHANGED <<commits, step_idx, current_code, tracked_file, apply_result,
                   original_code, pushes>>
    /\ UNCHANGED <<fpc, args>>
    /\ UNCHANGED <<pipeVars, patchVars>>

\* lines 121-146: the main file is read, the request is made; it raises
\* (return False) or its answer is parsed into steps
RequestHistory ==
    /\ gpc = "request"
    /\ \E raised \in BOOLEAN, parsed \in AloneStepLists :
         IF raised
         THEN /\ apply_result' = "False"
              /\ gpc' = "returned"
              /\ returned' = [returned EXCEPT !.requests = @ + 1,
                                              !.response = "raised"]
              /\ UNCHANGED <<commits, original_code>>
         ELSE /\ commits' = parsed
              /\ original_code' = tracked_file
              /\ gpc' = "apply"
              /\ returned' = [returned EXCEPT !.requests = @ + 1,
                                              !.response = "answered"]
              /\ UNCHANGED apply_result
    /\ UNCHANGED <<step_idx, current_code, tracked_file, repo_log, pushes>>
    /\ UNCHANGED <<fpc, args>>
    /\ UNCHANGED <<pipeVars, patchVars>>

NextGenerate ==
    \/ ValidateInputs
    \/ OpenRepository
    \/ RequestHistory
    \/ ApplyCommit

SpecGenerate == InitGenerate /\ [][NextGenerate]_vars

\* The snippets is_complete_java_file is applied to on its own: every text of
\* at most MaxSnippet lexemes, and some longer ones
SnippetLexemes == {"/*", "*/", "//", "nl", "sp", "class", "import", "word", ";", "{"}

ClassFoo == <<"class", "sp", "word", "sp", "{", "sp", "}">>
MethodFragment == <<"word", "sp", "word", "sp", "word", "{", "sp", "word", ";", "sp", "}">>
FullFile ==
    <<"package", "sp", "word", ";", "nl", "import", "sp", "word", ";", "nl">>
        \o <<"/*", "sp", "word", "sp", "*/", "nl">> \o ClassFoo
LongSnippets ==
    { ClassFoo,
      MethodFragment,
      FullFile,
      <<"//", "sp", "class", "sp", "word", "nl">> \o MethodFragment,
      <<"/*", "nl", "class", "sp", "word", "nl", "*/", "nl">> \o MethodFragment,
      <<"import", "sp", "word", ";", "nl">> \o MethodFragment }

Snippets == SeqsUpTo(SnippetLexemes, MaxSnippet) \cup LongSnippets

InitComplete ==
    /\ PipelineIdle
    /\ PatchIdle
    /\ CommitsIdle
    /\ fpc = "call"
    /\ args \in Snippets
    /\ returned = <<>>

\* self.is_complete_java_file(code)
IsCompleteJavaFile ==
    /\ fpc = "call"
    /\ returned' = is_complete_java_file(args)
    /\ fpc' = "done"
    /\ UNCHANGED args
    /\ UNCHANGED <<pipeVars, patchVars, commitVars>>

NextComplete == IsCompleteJavaFile

SpecComplete == InitComplete /\ [][NextComplete]_vars

----------------------------------------------------------------------------
\* patch_all_findings on one finding written with the field names of some
\* producer

\* the names a producer may use for the path, the line and the CWE id
FieldNames ==
    {"file_path", "filepath", "path", "filePath"}
        \X {"line", "line_number"} \X {"cwe_id", "cweId", "cwe"}
CanonicalNames == <<"file_path", "line", "cwe_id">>

\* a file path, a non-zero line and a CWE id
Triples == {"A.java", "B.java"} \X {10, 3} \X {"CWE89", "CWE78"}

\* the JSON object holding triple under names
Named(names, triple) ==
    (names[1] :> JStr(triple[1])) @@ (names[2] :> JInt(triple[2]))
        @@ (names[3] :> JStr(triple[3]))

InitAlias ==
    /\ parsed_juliet = {}
    /\ range = <<NoNumber, NoNumber>>
    /\ testcase_dirs = <<>>
    /\ idx = 0
    /\ pc = "patcher"
    /\ stats = ZeroStats
    /\ completed_steps = <<>>
    /\ generate_commits_result = [n \in TestcaseNumbers |-> None]
    /\ interrupted = FALSE
    /\ processed = <<>>
    /\ active = {}
    /\ stage_log = [n \in TestcaseNumbers |-> <<>>]
    /\ returned_steps = [n \in {} |-> <<>>]
    /\ writes = {}
    /\ \E names \in FieldNames, triple \in Triples :
         /\ args = [names |-> names, triple |-> triple]
         /\ findings_file = FileWith(JsonArray(<<Named(names, triple)>>))
    /\ ppc = "load"
    /\ findings = <<>>
    /\ fpos = 0
    /\ patch_stats = [total |-> 0, patched |-> 0, failed |-> 0]
    /\ files = OriginalFiles
    /\ requests = <<>>
    /\ attempts = <<>>
    /\ patch_commits = <<>>
    /\ CommitsIdle
    /\ fpc = "idle"
    /\ returned = <<>>

NextAlias ==
    \/ LoadFindings
    \/ PatchFinding

SpecAlias == InitAlias /\ [][NextAlias]_vars

----------------------------------------------------------------------------
\* patch_all_findings on findings that lack a field: the key is absent under
\* every name, or its value is null, "" or 0

SkipPool == {
    [file_path |-> JStr("A.java"), line |-> JInt(10), cwe_id |-> JStr("CWE89")],
    [filePath |-> JStr("B.java"), line_number |-> JInt(3), cwe |-> JStr("CWE78")],
    [line |-> JInt(10), cwe_id |-> JStr("CWE89")],
    [file_path |-> JStr(""), line |-> JInt(10), cwe_id |-> JStr("CWE89")],
    [file_path |-> JNull, filepath |-> JStr(""), line |-> JInt(10),
     cwe_id |-> JStr("CWE89")],
    [file_path |-> JStr("A.java"), cwe_id |-> JStr("CWE89")],
    [path |-> JStr("A.java"), line_number |-> JInt(0), cwe |-> JStr("CWE78")],
    [file_path |-> JStr("A.java"), line |-> JInt(10)],
    [file_path |-> JStr("B.java"), line |-> JInt(3), cweId |-> JStr("")] }

SkipFiles == {JsonArray(s) : s \in SeqsUpTo(SkipPool, MaxFindings)}

InitSkip ==
    /\ parsed_juliet = {}
    /\ range = <<NoNumber, NoNumber>>
    /\ testcase_dirs = <<>>
    /\ idx = 0
    /\ pc = "patcher"
    /\ stats = ZeroStats
    /\ completed_steps = <<>>
    /\ findings_file \in {FileWith(c) : c \in SkipFiles}
    /\ generate_commits_result = [n \in TestcaseNumbers |-> None]
    /\ interrupted = FALSE
    /\ processed = <<>>
    /\ active = {}
    /\ stage_log = [n \in TestcaseNumbers |-> <<>>]
    /\ returned_steps = [n \in {} |-> <<>>]
    /\ writes = {}
    /\ ppc = "load"
    /\ findings = <<>>
    /\ fpos = 0
    /\ patch_stats = [total |-> 0, patched |-> 0, failed |-> 0]
    /\ files = OriginalFiles
    /\ requests = <<>>
    /\ attempts = <<>>
    /\ patch_commits = <<>>
    /\ CommitsIdle
    /\ CallIdle

NextSkip ==
    \/ LoadFindings
    \/ PatchFinding

SpecSkip == InitSkip /\ [][NextSkip]_vars

----------------------------------------------------------------------------
\* The test synthesizer (gen_testcases.py)
\*
\* A CWE id is the lexeme "CWE" followed by its digits; the empty text is <<>>.

CweId(digits) == <<"CWE">> \o digits

\* VulnerabilityTestGenerator.CWE_TEMPLATES
CWE_TEMPLATES ==
    (CweId(<<"1", "5">>) :> [name |-> "External Control of System Setting",
                             test_method |-> "setConfiguration"])
    @@ (CweId(<<"7", "8">>) :> [name |-> "OS Command Injection",
                                test_method |-> "executeCommand"])
    @@ (CweId(<<"8", "0">>) :> [name |-> "Reflected XSS",
                                test_method |-> "processInput"])
    @@ (CweId(<<"8", "1">>) :> [name |-> "Script in Error Message",
                                test_method |-> "generateErrorMessage"])
    @@ (CweId(<<"8", "3">>) :> [name |-> "Script in Attributes",
                                test_method |-> "processAttribute"])
    @@ (CweId(<<"8", "9">>) :> [name |-> "SQL Injection",
                                test_method |-> "buildQuery"])
    @@ (CweId(<<"1", "1", "3">>) :> [name |-> "HTTP Response Splitting",
                                     test_method |-> "bad"])
    @@ (CweId(<<"1", "2", "9">>) :> [name |-> "Improper Array Index Validation",
                                     test_method |-> "accessArray"])
    @@ (CweId(<<"1", "3", "4">>) :> [name |-> "Uncontrolled Format String",
                                     test_method |-> "formatString"])
    @@ (CweId(<<"6", "0", "6">>) :> [name |-> "Unchecked Loop Condition",
                                     test_method |-> "processLoop"])

\* What the model keeps of a template text:
\*   test        the name of its @Test method, in pieces
\*   calls       the method of the main class its body calls, "" when none
\*   fails       "always" when the body reaches fail(...) on every path,
\*               "never" when it holds no fail(...), else "sometimes"
\*   message     the text of the fail(...) every path reaches, in pieces
\*   braces      "doubled" when every brace of the Java text is written {{ or
\*               }} for str.format, "single" when some are not
\*   package, main_class, test_class   the three fields, not yet filled in
Template(test, calls, fails, message, braces) ==
    [test |-> test, calls |-> calls, fails |-> fails, message |-> message,
     braces |-> braces, package |-> "{package}", main_class |-> "{main_class}",
     test_class |-> "{test_class}"]

\* the dictionary templates of get_test_template, lines 92-308
templates ==
    (CweId(<<"1", "5">>) :>
        Template(<<"testCWE15_ExternalControlOfSystemSetting">>,
                 "setConfiguration", "sometimes", <<>>, "doubled"))
    @@ (CweId(<<"7", "8">>) :>
        Template(<<"testCWE78_OSCommandInjection">>,
                 "executeCommand", "sometimes", <<>>, "doubled"))
    @@ (CweId(<<"8", "0">>) :>
        Template(<<"testCWE80_XSS">>, "processInput", "never", <<>>, "doubled"))
    @@ (CweId(<<"8", "1">>) :>
        Template(<<"testCWE81_ScriptInErrorMessage">>,
                 "generateErrorMessage", "never", <<>>, "doubled"))
    @@ (CweId(<<"8", "3">>) :>
        Template(<<"testCWE83_ScriptInAttributes">>,
                 "processAttribute", "never", <<>>, "doubled"))
    @@ (CweId(<<"8", "9">>) :>
        Template(<<"testCWE89_SQLInjection">>,
                 "buildQuery", "sometimes", <<>>, "doubled"))
    @@ (CweId(<<"1", "1", "3">>) :>
        Template(<<"testCWE113_HTTPResponseSplitting">>,
                 "bad", "sometimes", <<>>, "doubled"))
    @@ (CweId(<<"1", "2", "9">>) :>
        Template(<<"testCWE129_ImproperArrayIndexValidation">>,
                 "accessArray", "sometimes", <<>>, "doubled"))
    @@ (CweId(<<"1", "3", "4">>) :>
        Template(<<"testCWE134_UncontrolledFormatString">>,
                 "formatString", "sometimes", <<>>, "doubled"))
    @@ (CweId(<<"6", "0", "6">>) :>
        Template(<<"testCWE606_UncheckedLoopCondition">>,
                 "processLoop", "sometimes", <<>>, "doubled"))

\* the dictionary {}
EmptyDict == [key \in {} |-> ""]

\* dict.get(key, default)
GetOr(dict, key, default) == IF key \in DOMAIN dict THEN dict[key] ELSE default

\* vulnerability_name.replace(' ', '') of the two names the fallback can see
WithoutBlanks(name) ==
    IF name = "security vulnerability" THEN "securityvulnerability"
    ELSE IF name \in {CWE_TEMPLATES[k].name : k \in DOMAIN CWE_TEMPLATES}
    THEN "name of a known CWE without blanks"
    ELSE name

\* lines 314-334: the generic fallback template
GenericTemplate(cwe_id) ==
    LET cwe_info == GetOr(CWE_TEMPLATES, cwe_id, EmptyDict)
        method_name == GetOr(cwe_info, "test_method", "processInput")
        vulnerability_name == GetOr(cwe_info, "name", "security vulnerability")
    IN Template(<<"test">> \o cwe_id \o <<"_", WithoutBlanks(vulnerability_name)>>,
                "", "always", <<"Test not implemented for ">> \o cwe_id, "single")

\* (mutant) the fallback is never used: the first template stands in
GetTestTemplateFirst(cwe_id) == templates[CweId(<<"1", "5">>)]

\* VulnerabilityTestGenerator.get_test_template
get_test_template(cwe_id) ==
    IF cwe_id \in DOMAIN templates THEN templates[cwe_id]
    ELSE GenericTemplate(cwe_id)

\* The ids get_test_template is applied to on its own: CWE and at most
\* MaxDigits digits, and the empty text
DigitSet == {DigitLexemes[d] : d \in DOMAIN DigitLexemes}
CweIds == {CweId(ds) : ds \in SeqsUpTo(DigitSet, MaxDigits)} \cup {<<>>}

InitTemplate ==
    /\ PipelineIdle
    /\ PatchIdle
    /\ CommitsIdle
    /\ fpc = "call"
    /\ args \in CweIds
    /\ returned = <<>>

\* self.get_test_template(cwe_id)
GetTestTemplate ==
    /\ fpc = "call"
    /\ returned' = get_test_template(args)
    /\ fpc' = "done"
    /\ UNCHANGED args
    /\ UNCHANGED <<pipeVars, patchVars, commitVars>>

NextTemplate == GetTestTemplate

SpecTemplate == InitTemplate /\ [][NextTemplate]_vars

\* A file name is a sequence of the lexemes "CWE", "_", "word", ".java" and
\* the digits.  None, the result of a search without match, is NoCwe: the
\* search never returns the empty text.
NoCwe == <<>>

\* VulnerabilityTestGenerator.extract_cwe_from_filename
extract_cwe_from_filename(filename) ==
    LET hits == {i \in 1..(Len(filename) - 1) :
                    filename[i] = "CWE" /\ IsDigit(filename[i + 1])}
    IN IF hits = {} THEN NoCwe
       ELSE LET i == CHOOSE h \in hits : \A g \in hits : h <= g
            IN SubSeq(filename, i, SkipRun(filename, i + 1, DigitSet) - 1)

\* VulnerabilityTestGenerator.extract_package_and_class
extract_package_and_class(java_code) ==
    LET packages == {i \in 1..Len(java_code) :
                        /\ java_code[i] = "package"
                        /\ i + 1 <= Len(java_code) /\ Space(java_code[i + 1])
                        /\ SkipSpace(java_code, i + 1) + 1 <= Len(java_code)
                        /\ WordLike(java_code[SkipSpace(java_code, i + 1)])
                        /\ java_code[SkipSpace(java_code, i + 1) + 1] = ";"}
        classes == {i \in 1..Len(java_code) :
                        /\ java_code[i] = "public"
                        /\ i + 1 <= Len(java_code) /\ Space(java_code[i + 1])
                        /\ SkipSpace(java_code, i + 1) + 1 <= Len(java_code)
                        /\ java_code[SkipSpace(java_code, i + 1)] = "class"
                        /\ Space(java_code[SkipSpace(java_code, i + 1) + 1])
                        /\ SkipSpace(java_code, SkipSpace(java_code, i + 1) + 1)
                               <= Len(java_code)
                        /\ WordLike(java_code[SkipSpace(java_code,
                                        SkipSpace(java_code, i + 1) + 1)])}
        package == IF packages = {} THEN "testcases"
                   ELSE java_code[SkipSpace(java_code,
                            (CHOOSE h \in packages : \A g \in packages : h <= g) + 1)]
        class_name == IF classes = {} THEN "MainClass"
                      ELSE java_code[SkipSpace(java_code,
                               SkipSpace(java_code,
                                   (CHOOSE h \in classes : \A g \in classes : h <= g) + 1)
                               + 1)]
    IN <<package, class_name>>

\* str.format raised ValueError
FormatError == [raised |-> "ValueError"]

\* template.format(package=..., main_class=..., test_class=...): a brace that
\* is not doubled opens a field str.format cannot read
Format(template, package, main_class, test_class) ==
    IF template.braces = "single" THEN FormatError
    ELSE [template EXCEPT !.package = package, !.main_class = main_class,
                          !.test_class = test_class, !.braces = "plain"]

\* VulnerabilityTestGenerator.build_prompt: the prompt names the CWE, shows
\* the main code and gives the formatted template as the reference
build_prompt(cwe_id, package, main_class, test_class, main_code) ==
    LET template == Format(get_test_template(cwe_id), package, main_class, test_class)
    IN IF template = FormatError THEN FormatError
       ELSE [cwe_id |-> cwe_id, main_code |-> main_code, template |-> template]

\* (mutant) an id without template is kept as it is
EffectiveCweKept(cwe_id) == cwe_id

\* generate_test, lines 389-392: an absent or unknown id becomes CWE113
EffectiveCwe(cwe_id) ==
    IF cwe_id = NoCwe \/ cwe_id \notin DOMAIN CWE_TEMPLATES
    THEN CweId(<<"1", "1", "3">>)
    ELSE cwe_id

\* the names of the main Java file
FileNames ==
    {pre \o id \o <<"_", "word", ".java">> :
        pre \in {<<>>, <<"CWE", "_">>}, id \in CweIds}

\* the contents of the main Java file
MainCodes ==
    { <<"package", "sp", "word", ";", "nl", "public", "sp", "class", "sp", "word",
        "{", "}">>,
      <<"class", "sp", "word", "{", "}">> }

\* what the chat completion does: it raises, or it answers
Completions ==
    {<<"raises">>,
     Render(<<TextPart(<<"word", "sp", "word">>), FencePart("java", CodeA)>>),
     Render(<<TextPart(<<"sp", "word">>)>>)}

InitTest ==
    /\ PipelineIdle
    /\ PatchIdle
    /\ CommitsIdle
    /\ fpc = "call"
    /\ args \in [main_java_file : FileNames, main_code : MainCodes]
    /\ returned = <<>>

\* VulnerabilityTestGenerator.generate_test
GenerateTest ==
    /\ fpc = "call"
    /\ \E completion \in Completions :
       \E meta \in {extract_package_and_class(args.main_code)} :
       \E cwe_id \in {EffectiveCwe(extract_cwe_from_filename(args.main_java_file))} :
       \E prompt \in {build_prompt(cwe_id, meta[1], meta[2], <<meta[2], "Test">>,
                                   args.main_code)} :
         returned' =
            IF prompt = FormatError
            THEN [cwe_id |-> cwe_id, prompt |-> prompt, result |-> "raised",
                  test_code |-> <<>>]
            ELSE IF completion = <<"raises">>
            THEN [cwe_id |-> cwe_id, prompt |-> prompt, result |-> None,
                  test_code |-> <<>>]
            ELSE [cwe_id |-> cwe_id, prompt |-> prompt,
                  result |-> <<meta[2], "Test", ".java">>,
                  test_code |-> IF JavaBlocks(completion, 1) # <<>>
                                THEN Strip(JavaBlocks(completion, 1)[1])
                                ELSE Strip(completion)]
    /\ fpc' = "done"
    /\ UNCHANGED args
    /\ UNCHANGED <<pipeVars, patchVars, commitVars>>

NextTest == GenerateTest

SpecTest == InitTest /\ [][NextTest]_vars

InitPrompt ==
    /\ PipelineIdle
    /\ PatchIdle
    /\ CommitsIdle
    /\ fpc = "call"
    /\ args \in [cwe_id : CweIds, main_code : MainCodes]
    /\ returned = <<>>

\* prompt = self.build_prompt(cwe_id, package, main_class, test_class, ...)
\* with the names extract_package_and_class finds in main_code
BuildPrompt ==
    /\ fpc = "call"
    /\ \E meta \in {extract_package_and_class(args.main_code)} :
         returned' = build_prompt(args.cwe_id, meta[1], meta[2], <<meta[2], "Test">>,
                                  args.main_code)
    /\ fpc' = "done"
    /\ UNCHANGED args
    /\ UNCHANGED <<pipeVars, patchVars, commitVars>>

NextPrompt == BuildPrompt

SpecPrompt == InitPrompt /\ [][NextPrompt]_vars

----------------------------------------------------------------------------
\* The dataset extractor (parse_manifest.py)
\*
\* manifest.xml as parsed: Unparsable when the file is missing or no parser
\* gives a root, else the root with its children in document order.  An
\* element is its tag, its attributes and its children.

Unparsable == [parsed |-> FALSE, root |-> <<>>]
ParsedManifest(children) == [parsed |-> TRUE, root |-> children]

Elem(tag, attrs, children) == [tag |-> tag, attrs |-> attrs, children |-> children]

\* <file path="..."/>
FileElem(path) == Elem("file", [a \in {"path"} |-> path], <<>>)

\* a child without path attribute
BareElem == Elem("file", [a \in {} |-> ""], <<>>)

\* <testcase> ... </testcase>
TestcaseElem(children) == Elem("testcase", [a \in {} |-> ""], children)

\* file_elem.get("path")
PathOf(file_elem) ==
    IF "path" \in DOMAIN file_elem.attrs THEN file_elem.attrs["path"] ELSE None

\* if file_path:
HasPath(file_path) == file_path # None /\ file_path # ""

\* (mutant) the last record holding the target is returned
FirstOfLast(hits) == CHOOSE k \in hits : \A j \in hits : j <= k

\* the record at which the loop over root.findall("testcase") returns
FirstOf(hits) == CHOOSE k \in hits : \A j \in hits : k <= j

RECURSIVE FilesInTestcase(_)
\* lines 127-133: files_in_testcase once the inner loop is over
FilesInTestcase(children) ==
    IF children = <<>> THEN <<>>
    ELSE (IF HasPath(PathOf(Head(children))) THEN <<PathOf(Head(children))>> ELSE <<>>)
             \o FilesInTestcase(Tail(children))

\* parse_manifest_for_testcase(target_file), given what manifest.xml holds
parse_manifest_for_testcase(manifest, target_file) ==
    IF manifest = Unparsable THEN <<target_file>>
    ELSE LET testcases == SelectSeq(manifest.root, LAMBDA e : e.tag = "testcase")
             hits == {k \in DOMAIN testcases :
                        \E i \in DOMAIN testcases[k].children :
                            /\ HasPath(PathOf(testcases[k].children[i]))
                            /\ PathOf(testcases[k].children[i]) = target_file}
         IN IF hits = {} THEN <<target_file>>
            ELSE FilesInTestcase(testcases[FirstOf(hits)].children)

\* the children of the root a manifest is made of
RecordPool == {
    TestcaseElem(<<FileElem("a.java"), FileElem("b.java")>>),
    TestcaseElem(<<FileElem("b.java")>>),
    TestcaseElem(<<BareElem, FileElem("a.java")>>),
    TestcaseElem(<<FileElem(""), FileElem("c.java"), FileElem("a.java")>>),
    TestcaseElem(<<FileElem("c.java"), FileElem("c.java")>>),
    TestcaseElem(<<>>),
    Elem("description", [a \in {} |-> ""], <<FileElem("d.java")>>) }

Manifests ==
    {ParsedManifest(children) : children \in SeqsUpTo(RecordPool, MaxRecords)}
        \cup {Unparsable}

TargetFiles == {"a.java", "b.java", "c.java", "d.java", "e.java", ""}

InitManifest ==
    /\ PipelineIdle
    /\ PatchIdle
    /\ CommitsIdle
    /\ fpc = "call"
    /\ args \in [manifest : Manifests, target_file : TargetFiles]
    /\ returned = <<>>

\* testcase_files = parse_manifest_for_testcase(target_file)
ParseManifestForTestcase ==
    /\ fpc = "call"
    /\ returned' = parse_manifest_for_testcase(args.manifest, args.target_file)
    /\ fpc' = "done"
    /\ UNCHANGED args
    /\ UNCHANGED <<pipeVars, patchVars, commitVars>>

NextManifest == ParseManifestForTestcase

SpecManifest == InitManifest /\ [][NextManifest]_vars

\* main() of parse_manifest.py.  fpc is the position in main, args is what
\* the run finds (the targets of the CSV file, manifest.xml, the directories
\* already under TARGET_DIR, the targets the dataset holds in a
\* subdirectory of testcases), returned holds the locals of main and the
\* directories the run has created.

\* the manifests main is run on
ExtractManifests ==
    {Unparsable,
     ParsedManifest(<<TestcaseElem(<<FileElem("a.java"), FileElem("b.java")>>),
                      TestcaseElem(<<FileElem("c.java")>>)>>),
     ParsedManifest(<<TestcaseElem(<<FileElem("b.java")>>),
                      TestcaseElem(<<FileElem("c.java"), FileElem("a.java"),
                                     FileElem("c.java")>>),
                      TestcaseElem(<<FileElem("a.java"), FileElem("c.java")>>)>>)}

ExtractTargets == {"a.java", "b.java", "c.java", "e.java"}

\* unique_files.tolist(): lists without repetition
TargetLists ==
    {l \in SeqsUpTo(ExtractTargets, MaxTargets) :
        \A i, j \in DOMAIN l : i # j => l[i] # l[j]}

\* tuple(sorted(testcase_files)): the paths with the number of times each
\* occurs
TestcaseId(testcase_files) ==
    [p \in {testcase_files[i] : i \in DOMAIN testcase_files} |->
        Cardinality({i \in DOMAIN testcase_files : testcase_files[i] = p})]

\* (mutant) no testcase is taken for a duplicate
IsDuplicateNever(testcase_id, processed_testcases) == FALSE

\* if testcase_id in processed_testcases
IsDuplicate(testcase_id, processed_testcases) == testcase_id \in processed_testcases

\* get_directory_structure_from_file: the directories between testcases and
\* the file; [] when the dataset does not hold the file
DirStructure(target_file, nested) ==
    IF target_file \in nested THEN <<"CWE", "s01">> ELSE <<>>

InitExtract ==
    /\ PipelineIdle
    /\ PatchIdle
    /\ CommitsIdle
    /\ fpc = "start"
    /\ args \in [manifest : ExtractManifests,
                 target_files : TargetLists,
                 existing : SUBSET {0, 1},
                 nested : SUBSET ExtractTargets]
    /\ returned = [pos |-> 0, testcase_count |-> 0, processed_testcases |-> {},
                   compilation_stats |-> [success |-> 0, failed |-> 0],
                   dirs |-> {}, created |-> <<>>, reported |-> <<>>]

\* lines 266-279: no target, no run
ReadCsvTargets ==
    /\ fpc = "start"
    /\ fpc' = IF args.target_files = <<>> THEN "exit" ELSE "loop"
    /\ returned' = [returned EXCEPT !.dirs = args.existing]
    /\ UNCHANGED args
    /\ UNCHANGED <<pipeVars, patchVars, commitVars>>

\* one pass of  for target_file in target_files
ExtractTestcase ==
    /\ fpc = "loop"
    /\ returned.pos < Len(args.target_files)
    /\ \E compiled \in BOOLEAN, copied \in BOOLEAN :
       LET target_file == args.target_files[returned.pos + 1]
           testcase_files == parse_manifest_for_testcase(args.manifest, target_file)
           testcase_id == TestcaseId(testcase_files)
           count == returned.testcase_count
           made == count \notin returned.dirs
           dir_structure == DirStructure(target_file, args.nested)
           next == [returned EXCEPT !.pos = @ + 1]
       IN IF IsDuplicate(testcase_id, returned.processed_testcases)
          THEN \* skipping duplicate testcase
               returned' = next /\ UNCHANGED fpc
          ELSE IF ~made /\ dir_structure # <<>>
          THEN \* create_directory returned None: None + "/" + dir_name raises
               /\ returned' = [next EXCEPT !.processed_testcases = @ \cup {testcase_id}]
               /\ fpc' = "raised"
          ELSE IF ~made
          THEN \* current_path is None: continue
               /\ returned' = [next EXCEPT !.processed_testcases = @ \cup {testcase_id}]
               /\ UNCHANGED fpc
          ELSE \* testcase-<count> is created and filled
               /\ returned' =
                    [next EXCEPT
                       !.processed_testcases = @ \cup {testcase_id},
                       !.dirs = @ \cup {count},
                       !.created = Append(@, [num |-> count, id |-> testcase_id]),
                       !.compilation_stats =
                           IF ~copied THEN @
                           ELSE IF compiled THEN [@ EXCEPT !.success = @ + 1]
                           ELSE [@ EXCEPT !.failed = @ + 1],
                       !.testcase_count = @ + 1]
               /\ UNCHANGED fpc
    /\ UNCHANGED args
    /\ UNCHANGED <<pipeVars, patchVars, commitVars>>

\* lines 337-342: the report after the loop
ReportExtract ==
    /\ fpc = "loop"
    /\ returned.pos = Len(args.target_files)
    /\ returned' = [returned EXCEPT !.reported = <<returned.testcase_count>>]
    /\ fpc' = "done"
    /\ UNCHANGED args
    /\ UNCHANGED <<pipeVars, patchVars, commitVars>>

NextExtract ==
    \/ ReadCsvTargets
    \/ ExtractTestcase
    \/ ReportExtract

SpecExtract == InitExtract /\ [][NextExtract]_vars

----------------------------------------------------------------------------
\* Properties of the orchestrator

\* s is a prefix of t
IsPrefix(s, t) == Len(s) <= Len(t) /\ \A k \in 1..Len(s) : s[k] = t[k]

\* the invocations of stage for testcase n
CallsOf(n, stage) == {k \in DOMAIN stage_log[n] : stage_log[n][k].stage = stage}

\* the testcases for which stage has returned one of results
ReturnedWith(stage, results) ==
    {n \in TestcaseNumbers : \E k \in CallsOf(n, stage) :
        stage_log[n][k].result \in results}

\* the numbers of the directories run_pipeline selects
Selected ==
    {n \in parsed_juliet :
        /\ range[1] = NoNumber \/ n >= NumberOf(range[1])
        /\ range[2] = NoNumber \/ n <= NumberOf(range[2])}

ProcessedSet == {processed[k] : k \in 1..Len(processed)}

\* C1: the stages of a testcase run in the order commit history, CWE
\* analysis, patch generation; the completed-steps list, while it is built
\* and when it is returned, is a prefix of that order; the CWE analysis is
\* called only after the commit-history stage returned True, and patch
\* generation only after the CWE analysis returned True with a findings file.
C1_StagesInOrder ==
    /\ IsPrefix(completed_steps, Stages)
    /\ \A n \in DOMAIN returned_steps : IsPrefix(returned_steps[n], Stages)
    /\ \A n \in TestcaseNumbers :
         LET log == stage_log[n]
         IN /\ Len(log) <= 3
            /\ \A k \in 1..Len(log) : log[k].stage = Stages[k]
            /\ Len(log) >= 2 => log[1].result = "True"
            /\ Len(log) >= 3 => log[2].result = "True" /\ log[2].file

\* a testcase went through all three stages, another stopped after the first
C1_Witness ==
    \E n, m \in DOMAIN returned_steps :
        /\ returned_steps[n] = Stages
        /\ returned_steps[m] = <<>>
        /\ Len(stage_log[m]) = 1

\* C2: when generate_commits returns False for a testcase, step 1 is
\* treated as failed: the stage returns False, commit_history_failed is
\* incremented and commit_history_success is not, and neither the CWE
\* analysis nor patch generation is run for that testcase.
C2_FailedSynthesisFailsStep1 ==
    LET unsynthesized == {n \in TestcaseNumbers : generate_commits_result[n] = "False"}
    IN /\ \A n \in unsynthesized :
            /\ Len(stage_log[n]) = 1
            /\ stage_log[n][1].result = "False"
       /\ stats.commit_history_failed >= Cardinality(unsynthesized)
       /\ stats.commit_history_success + Cardinality(unsynthesized) <= Len(processed)

\* C3: the selected directories are processed in strictly increasing order
\* of their number, each exactly once: what has been processed is always an
\* increasing list of selected numbers, and a run that is not interrupted
\* ends having processed all of them.
C3_NumericOrderOnce ==
    /\ \A i, j \in 1..Len(processed) : i < j => processed[i] < processed[j]
    /\ ProcessedSet \subseteq Selected
    /\ (pc \in {"summary", "done"} /\ ~interrupted) => ProcessedSet = Selected

\* testcase-2 was processed before testcase-10, and the run is over
C3_Witness == pc = "done" /\ processed = <<2, 10>>

C5_NoSharedResource ==
    \A w1, w2 \in writes : w1.res = w2.res => w1.by = w2.by

\* C5 (amended): the project directory testcase-N-commits and the workflow
\* file of that project are modified by testcase N only; what two testcases
\* both modify is the repository at commit_repo_dir, its .github/workflows
\* directory or the temporary test directory, and every testcase whose
\* commit-history stage succeeded has committed to that one repository.
C5_OnlyRepositoryShared ==
    /\ \A w1, w2 \in writes :
         (w1.res = w2.res /\ w1.by # w2.by) =>
             w1.res \in {Repository, WorkflowsDir, TempTestDir}
    /\ \A w \in writes :
         w.res.kind \in {"project_dir", "workflow_file"} => w.res.name = ProjectName(w.by)
    /\ \A n \in ReturnedWith("commit_history", {"True"}) :
         [res |-> Repository, by |-> n] \in writes

\* two testcases each wrote their own project directory and both committed
\* to the repository
C5_Witness ==
    \E n, m \in TestcaseNumbers :
        /\ n # m
        /\ [res |-> ProjectDir(n), by |-> n] \in writes
        /\ [res |-> ProjectDir(m), by |-> m] \in writes
        /\ [res |-> Repository, by |-> n] \in writes
        /\ [res |-> Repository, by |-> m] \in writes

\* C6: processing is strictly sequential.  At most one stage execution is
\* in progress, it belongs to the testcase taken last, and every testcase
\* taken before it has no stage still running: its last executed stage
\* returned before the next testcase's first stage was called.
C6_StrictlySequential ==
    /\ Cardinality(active) <= 1
    /\ \A a \in active :
         /\ a[1] = CurrentTestcase
         /\ pc = CASE a[2] = "commit_history" -> "step1"
                   [] a[2] = "cwe_analysis" -> "step2"
                   [] a[2] = "patch_generation" -> "step3"
    /\ ppc \in {"load", "loop", "returned", "raised"} => pc \in {"step3", "patcher"}
    /\ \A k \in 1..(Len(processed) - 1) :
         \A j \in DOMAIN stage_log[processed[k]] :
             stage_log[processed[k]][j].result # "running"

\* the second testcase's first stage runs after the first testcase went
\* through all of its stages
C6_Witness ==
    /\ Len(processed) = 2
    /\ active = {<<processed[2], "commit_history">>}
    /\ Len(stage_log[processed[1]]) = 3

\* C8: nothing is retried.  Each stage is invoked at most once per testcase,
\* and for each finding the patch request, the overwrite of the file and the
\* commit-and-push are each attempted at most once, whatever the outcome.
C8_NothingRetried ==
    /\ \A n \in TestcaseNumbers : \A stage \in StageSet :
         Cardinality(CallsOf(n, stage)) <= 1
    /\ \A i \in DOMAIN attempts :
         attempts[i].llm <= 1 /\ attempts[i].write <= 1 /\ attempts[i].commit <= 1
    /\ Len(requests) <= Len(findings)

\* a testcase failed its first stage and a later one is in its patch stage,
\* where the commit of the only finding failed and the loop is over
C8_Witness ==
    /\ Len(processed) = 2
    /\ stage_log[processed[1]][1].result = "False"
    /\ pc = "step3" /\ ppc = "returned"
    /\ Len(findings) = 1
    /\ attempts[1] = [llm |-> 1, write |-> 1, commit |-> 1]
    /\ patch_stats.failed = 1

----------------------------------------------------------------------------
\* Properties of patch_all_findings

\* C7: for a findings file that is a JSON array of objects, total is the
\* number of findings and every finding the loop has passed is counted in
\* exactly one of patched and failed: patched + failed is the number of
\* findings passed so far, and equals total when patch_all_findings returns,
\* which it does only after the loop has passed every finding.
C7_EveryFindingCounted ==
    /\ ppc = "loop" =>
         /\ patch_stats.total = Len(findings)
         /\ patch_stats.patched + patch_stats.failed = fpos - 1
    /\ ppc = "returned" =>
         /\ findings = findings_file.content.items
         /\ patch_stats.total = Len(findings)
         /\ patch_stats.patched + patch_stats.failed = patch_stats.total
         /\ fpos = IF findings = <<>> THEN 0 ELSE Len(findings) + 1

\* the request for the first finding raised, the second finding was patched
\* and pushed, and patch_all_findings returned
C7_Witness ==
    /\ ppc = "returned"
    /\ Len(findings) = 2
    /\ attempts[1] = [llm |-> 1, write |-> 0, commit |-> 0]
    /\ attempts[2] = [llm |-> 1, write |-> 1, commit |-> 1]
    /\ patch_stats = [total |-> 2, patched |-> 1, failed |-> 1]

----------------------------------------------------------------------------
\* Properties of _apply_commits

\* s is a suffix of t
IsSuffix(s, t) ==
    Len(s) <= Len(t) /\ \A k \in 1..Len(s) : s[k] = t[Len(t) - Len(s) + k]

\* the steps have been parsed and _apply_commits is running or has returned
Applying == gpc \in {"apply", "returned"} /\ commits # <<>>

\* the commit of step i (the setup commit is first in the log)
StepCommit(i) == repo_log[1 + i]

\* the file's content when step i starts
BeforeStep(i) == IF i = 1 THEN original_code ELSE StepCommit(i - 1).main

\* C9: _apply_commits creates exactly one commit per step, in the order of
\* the parsed list: after i steps the repository holds i new commits, the
\* i-th carrying the i-th step's message and the content step i wrote, which
\* ends with the step's code and is what the file holds until the next step;
\* it returns True after the last step.
C9_OneCommitPerStepInOrder ==
    Applying =>
        /\ Len(repo_log) = 1 + step_idx
        /\ \A i \in 1..step_idx :
             /\ StepCommit(i).message
                  = CommitMessage(parse_package_from_java(original_code),
                                  commits[i].message)
             /\ IsSuffix(commits[i].code, StepCommit(i).main)
        /\ step_idx >= 1 => StepCommit(step_idx).main = tracked_file
        /\ gpc = "returned" <=> step_idx = Len(commits)
        /\ gpc = "returned" => apply_result = "True"

\* three steps whose messages say "Step 2", "Step 1", "Step 2" were committed
\* in that order
C9_Witness ==
    /\ gpc = "returned"
    /\ Len(commits) = 3
    /\ commits[1].message = "Step 2" /\ commits[2].message = "Step 1"
    /\ Len(repo_log) = 4
    /\ repo_log[2].message[5] = "Step 2" /\ repo_log[3].message[5] = "Step 1"

\* C10 (as stated): every step overwrites the tracked file with exactly its
\* code when the code is judged complete, and appends its code to the content
\* the file had (left by the previous step; for the first step, the copy
\* build_project placed) when the code is judged incomplete.
C10_OverwriteOrAppend ==
    Applying =>
        \A i \in 1..step_idx :
            StepCommit(i).main =
                IF is_complete_java_file(commits[i].code) THEN commits[i].code
                ELSE BeforeStep(i) \o Separator \o commits[i].code

\* C10 (amended): the first step always overwrites the file with exactly its
\* code, complete or not; every later step overwrites it with exactly its
\* code when the code is judged complete and otherwise appends its code,
\* after a blank line, to the content the previous step left.
C10_FirstStepOverwrites ==
    Applying =>
        /\ \A i \in 1..step_idx :
             StepCommit(i).main =
                 IF i = 1 \/ is_complete_java_file(commits[i].code)
                 THEN commits[i].code
                 ELSE StepCommit(i - 1).main \o Separator \o commits[i].code
        /\ step_idx >= 1 => tracked_file = StepCommit(step_idx).main

\* an incomplete first step replaced the file, an incomplete second step was
\* appended to it, and a complete third step replaced both
C10_Witness ==
    /\ step_idx = 3
    /\ ~is_complete_java_file(commits[1].code)
    /\ ~is_complete_java_file(commits[2].code)
    /\ is_complete_java_file(commits[3].code)
    /\ StepCommit(1).main = commits[1].code
    /\ StepCommit(2).main = commits[1].code \o Separator \o commits[2].code
    /\ tracked_file = commits[3].code

\* C11: pushing is best-effort: whatever the push after each step did (no
\* remote, failed, or succeeded), no step is skipped and nothing is raised
\* out of the loop: every step already taken has its commit and its push
\* attempt, and once _apply_commits has stopped all n commits exist and it
\* returned True.
C11_PushIsBestEffort ==
    /\ Applying =>
         /\ Len(pushes) = step_idx
         /\ Len(repo_log) = 1 + step_idx
         /\ gpc = "returned" =>
              /\ apply_result = "True"
              /\ Len(repo_log) = 1 + Len(commits)
    /\ gpc = "raised" => pushes = <<>> /\ commits = <<>>

\* three steps were committed and True returned although the first push
\* failed and the second found no remote
C11_Witness ==
    /\ gpc = "returned" /\ apply_result = "True"
    /\ Len(commits) = 3 /\ Len(repo_log) = 4
    /\ pushes[1] = "push_failed" /\ pushes[2] = "no_remote"

----------------------------------------------------------------------------
\* Properties of parse_gpt_response

RECURSIVE MarkedSteps(_)
\* the steps the "Commit N: msg" blocks of parts stand for, in order
MarkedSteps(parts) ==
    IF parts = <<>> THEN <<>>
    ELSE (IF Head(parts).kind = "commit"
          THEN <<Step(Head(parts).msg, Head(parts).code)>> ELSE <<>>)
             \o MarkedSteps(Tail(parts))

RECURSIVE BlockCodes(_, _)
\* the codes of the fenced blocks of parts whose tag is in tags, in order
BlockCodes(parts, tags) ==
    IF parts = <<>> THEN <<>>
    ELSE (IF Head(parts).kind = "fence" /\ Head(parts).tag \in tags
          THEN <<Head(parts).code>> ELSE <<>>)
             \o BlockCodes(Tail(parts), tags)

\* code is text without its leading and trailing white space
IsTrimOf(code, text) ==
    \E a \in 0..Len(text) : \E b \in a..Len(text) :
        /\ \A k \in 1..a : Space(text[k])
        /\ \A k \in (b + 1)..Len(text) : Space(text[k])
        /\ code = SubSeq(text, a + 1, b)
        /\ code = <<>> \/ (~Space(code[1]) /\ ~Space(code[Len(code)]))

IsCommitPart(part) == part.kind = "commit"
IsFencePart(part) == part.kind = "fence"
IsJavaFence(part) == part.kind = "fence" /\ part.tag = "java"
HasMessage(part) == part.kind = "commit" /\ part.msg # <<>>
HasHashes(part) == part.kind = "commit" /\ part.hashes # <<>>
AllParts(Test(_)) == \A k \in 1..Len(args) : Test(args[k])
SomePart(Test(_)) == \E k \in 1..Len(args) : Test(args[k])

Parsed == fpc = "done"

\* C12 (as stated): a response of n >= 1 blocks, each a line "Commit N: msg"
\* followed by a fenced code block, is parsed into the n pairs (msg, trimmed
\* code) of the blocks, in order.
C12_StructuredBlocksInOrder ==
    (Parsed /\ args # <<>> /\ AllParts(HasMessage)) =>
        returned = MarkedSteps(args)

\* C12 holds of the blocks whose line starts with at least one hash
C12_HashedBlocksInOrder ==
    (Parsed /\ args # <<>> /\ AllParts(HasMessage) /\ AllParts(HasHashes)) =>
        returned = MarkedSteps(args)

\* three hashed blocks numbered 1, 2, 1 were parsed into three steps
C12_HashedWitness ==
    /\ Parsed /\ Len(args) = 3 /\ AllParts(HasMessage) /\ AllParts(HasHashes)
    /\ args[1].num = <<"1">> /\ args[2].num = <<"2">> /\ args[3].num = <<"1">>
    /\ Len(returned) = 3

\* C13: a response without commit markers and with k >= 1 fenced java blocks
\* is parsed into k steps called "Step 1" .. "Step k", whose codes are the
\* trimmed contents of the java blocks in order of appearance.
C13_JavaBlocksNumbered ==
    (Parsed /\ ~SomePart(IsCommitPart) /\ SomePart(IsJavaFence)) =>
        LET codes == BlockCodes(args, {"java"})
        IN /\ Len(returned) = Len(codes)
           /\ \A i \in 1..Len(codes) :
                /\ returned[i].message = <<"Step">> \o DecimalText(i)
                /\ returned[i].code = codes[i]

\* two different java blocks around a line of prose gave "Step 1", "Step 2"
C13_Witness ==
    /\ Parsed
    /\ args = <<FencePart("java", CodeB), TextPart(<<"sp", "word">>),
                FencePart("java", CodeA)>>
    /\ returned = <<Step(<<"Step", "1">>, CodeB), Step(<<"Step", "2">>, CodeA)>>

\* C14: a response without any fenced block is parsed into exactly one step
\* called "Initial implementation" whose code is the whole response without
\* its leading and trailing white space.
C14_WholeResponse ==
    (Parsed /\ \A k \in 1..Len(Render(args)) : Render(args)[k] # "fence") =>
        /\ Len(returned) = 1
        /\ returned[1].message = <<"Initial implementation">>
        /\ IsTrimOf(returned[1].code, Render(args))

\* two lines of prose, the first starting with a blank, became one step
C14_Witness ==
    /\ Parsed
    /\ args = <<TextPart(<<"sp", "word">>), TextPart(<<"word", "sp", "word">>)>>
    /\ returned = <<Step(<<"Initial implementation">>,
                         <<"word", "nl", "word", "sp", "word">>)>>

\* C15 (as stated): without commit markers, every fenced block, tagged java
\* or not, becomes one step; the whole response becomes the single step only
\* when it holds no fenced block.
C15_AnyFencedBlock ==
    (Parsed /\ ~SomePart(IsCommitPart)) =>
        IF SomePart(IsFencePart)
        THEN /\ Len(returned) = Len(BlockCodes(args, {"java", "plain"}))
             /\ \A i \in 1..Len(returned) :
                  returned[i].code = BlockCodes(args, {"java", "plain"})[i]
        ELSE returned = <<Step(<<"Initial implementation">>, Strip(Render(args)))>>

\* C15 (amended): without commit markers, every fenced block tagged java
\* becomes one step and the untagged blocks become none; the whole response,
\* its untagged fences included, becomes the single step exactly when it
\* holds no block tagged java.
C15_OnlyJavaFencedBlocks ==
    (Parsed /\ ~SomePart(IsCommitPart)) =>
        IF SomePart(IsJavaFence)
        THEN /\ Len(returned) = Len(BlockCodes(args, {"java"}))
             /\ \A i \in 1..Len(returned) :
                  /\ returned[i].code = BlockCodes(args, {"java"})[i]
                  /\ returned[i].message # <<"Initial implementation">>
        ELSE returned = <<Step(<<"Initial implementation">>, Strip(Render(args)))>>

\* an untagged block next to a java block gave one step; and an untagged
\* block alone would be kept with its fences
C15_Witness ==
    /\ Parsed
    /\ args = <<FencePart("plain", CodeB), FencePart("java", CodeA)>>
    /\ returned = <<Step(<<"Step", "1">>, CodeA)>>

----------------------------------------------------------------------------
\* Properties of is_complete_java_file

\* position k of s holds the word class followed by white space and a word
DeclaresClassAt(s, k) ==
    /\ s[k] = "class"
    /\ k = 1 \/ ~WordLike(s[k - 1])
    /\ \E w \in (k + 2)..Len(s) :
         /\ WordLike(s[w])
         /\ \A m \in (k + 1)..(w - 1) : Space(s[m])

Holds(s, t) == \E k \in 1..Len(s) : s[k] = t

\* position k of s is after a "//" of its line
AfterLineComment(s, k) ==
    \E i \in 1..(k - 1) : s[i] = "//" /\ \A m \in i..k : s[m] # "nl"

\* position k of s is between a "/*" and the first "*/" after it
InBlockComment(s, k) ==
    \E i \in 1..(k - 1) : \E j \in (k + 1)..Len(s) :
        /\ s[i] = "/*" /\ s[j] = "*/"
        /\ \A m \in (i + 1)..(j - 1) : s[m] # "*/"
        /\ \A m \in 1..(i - 1) : s[m] # "/*"

\* C16: is_complete_java_file tells whether a class declaration (class, white
\* space, an identifier) is left outside the comments and the package/import
\* statements: in a snippet without comments and such statements it is true
\* exactly when the snippet declares a class; it is false for a snippet
\* without the word class (a bare method fragment), false when every class
\* is after a "//" of its line, and false when every class is inside the
\* block comment the snippet starts first; it is true for class Foo { },
\* also after package and import lines and a comment.
C16_ClassDeclarationOutsideComments ==
    fpc = "done" =>
        /\ (~Holds(args, "/*") /\ ~Holds(args, "//") /\ ~Holds(args, "import")
              /\ ~Holds(args, "package")) =>
               (returned <=> \E k \in 1..Len(args) : DeclaresClassAt(args, k))
        /\ ~Holds(args, "class") => ~returned
        /\ (~Holds(args, "/*") /\ \A k \in 1..Len(args) :
               args[k] = "class" => AfterLineComment(args, k)) => ~returned
        /\ (~Holds(args, "//") /\ \A k \in 1..Len(args) :
               args[k] = "class" => InBlockComment(args, k)) => ~returned
        /\ args = ClassFoo => returned
        /\ args = MethodFragment => ~returned
        /\ (Len(args) > Len(ClassFoo)
              /\ SubSeq(args, Len(args) - Len(ClassFoo) + 1, Len(args)) = ClassFoo)
             => returned

\* class Foo { } after a package line, an import line and a comment was
\* judged complete
C16_Witness ==
    /\ fpc = "done"
    /\ args = FullFile
    /\ returned = TRUE

----------------------------------------------------------------------------
\* Properties of the field names of a finding

\* C17: whatever names the producer used (file_path, filepath, path or
\* filePath; line or line_number; cwe_id, cweId or cwe), the finding is
\* resolved to the triple the finding with the canonical names is resolved
\* to, the request made for it asks about that file, line and CWE id, and it
\* is counted as the canonical finding is: never skipped, counted once, and
\* counted as patched exactly when its patch was committed and pushed under
\* the message naming that CWE id and file.
C17_FieldNamesDoNotMatter ==
    ppc \in {"loop", "returned"} =>
        LET finding == findings[1]
            canonical == Named(CanonicalNames, args.triple)
        IN /\ finding = Named(args.names, args.triple)
           /\ FilePathOf(finding) = FilePathOf(canonical)
           /\ FilePathOf(finding) = JStr(args.triple[1])
           /\ VulnLineOf(finding) = VulnLineOf(canonical)
           /\ VulnLineOf(finding) = JInt(args.triple[2])
           /\ CweIdOf(finding) = CweIdOf(canonical)
           /\ CweIdOf(finding) = JStr(args.triple[3])
           /\ ppc = "returned" =>
                /\ attempts[1].llm = 1
                /\ requests = <<[file |-> args.triple[1],
                                 line |-> JInt(args.triple[2]),
                                 cwe |-> JStr(args.triple[3]),
                                 code |-> "original"]>>
                /\ patch_stats.total = 1
                /\ patch_stats.patched + patch_stats.failed = 1
                /\ patch_stats.patched = Len(patch_commits)
                /\ \A k \in 1..Len(patch_commits) :
                     patch_commits[k] = <<"Security patch: ", args.triple[3],
                                          " in ", args.triple[1]>>

\* the finding {"filepath": "A.java", "line_number": 10, "cweId": "CWE89"}
\* was patched and counted
C17_Witness ==
    /\ ppc = "returned"
    /\ args.names = <<"filepath", "line_number", "cweId">>
    /\ args.triple = <<"A.java", 10, "CWE89">>
    /\ patch_stats = [total |-> 1, patched |-> 1, failed |-> 0]
    /\ Len(requests) = 1

----------------------------------------------------------------------------
\* Properties of the test synthesizer

\* the ten ids of the table of the spec
KnownCwes ==
    {CweId(<<"1", "5">>), CweId(<<"7", "8">>), CweId(<<"8", "0">>),
     CweId(<<"8", "1">>), CweId(<<"8", "3">>), CweId(<<"8", "9">>),
     CweId(<<"1", "1", "3">>), CweId(<<"1", "2", "9">>),
     CweId(<<"1", "3", "4">>), CweId(<<"6", "0", "6">>)}

\* C18: get_test_template returns, for each of the ten known ids, the
\* template written for that id, and for every other id the generic stub,
\* whose body calls nothing and reaches fail("Test not implemented for
\* <id>") on every path.
C18_TemplateLookup ==
    fpc = "done" =>
        /\ DOMAIN templates = KnownCwes
        /\ args \in KnownCwes =>
             /\ returned = templates[args]
             /\ returned.calls = CWE_TEMPLATES[args].test_method
             /\ returned.fails # "always"
             /\ \A other \in KnownCwes \ {args} : returned # templates[other]
        /\ args \notin KnownCwes =>
             /\ returned.fails = "always"
             /\ returned.calls = ""
             /\ returned.message = <<"Test not implemented for ">> \o args
             /\ returned.test = <<"test">> \o args \o <<"_", "securityvulnerability">>

\* CWE999 got the generic stub
C18_Witness ==
    /\ fpc = "done"
    /\ args = CweId(<<"9", "9", "9">>)
    /\ returned.fails = "always"
    /\ returned.message = <<"Test not implemented for ", "CWE", "9", "9", "9">>

\* the id the file name carries is one of the ten
NameHasKnownCwe ==
    \E id \in KnownCwes :
        \E i \in 1..Len(args.main_java_file) :
            /\ i + Len(id) <= Len(args.main_java_file)
            /\ SubSeq(args.main_java_file, i, i + Len(id) - 1) = id
            /\ ~IsDigit(args.main_java_file[i + Len(id)])
            /\ \A j \in 1..(i - 1) :
                 ~(args.main_java_file[j] = "CWE" /\ IsDigit(args.main_java_file[j + 1]))

\* C19 as stated: when the file name carries no known CWE id, the reference
\* template of the prompt is the generic failing stub.
C19_UnknownCweGetsGenericStub ==
    (fpc = "done" /\ ~NameHasKnownCwe) =>
        /\ returned.result # "raised"
        /\ returned.prompt.template.fails = "always"

\* C19 (amended): when the file name carries no known CWE id, generate_test
\* goes on with CWE113: the prompt names CWE113 and its reference template is
\* the one of CWE113, formatted; when it carries a known id the template is
\* that id's.  The generic stub never reaches a prompt.
C19_UnknownCweGetsCWE113 ==
    fpc = "done" =>
        /\ returned.result # "raised"
        /\ returned.prompt.template.fails # "always"
        /\ ~NameHasKnownCwe =>
             /\ returned.prompt.cwe_id = <<"CWE", "1", "1", "3">>
             /\ returned.prompt.template.test = <<"testCWE113_HTTPResponseSplitting">>
             /\ returned.prompt.template.calls = "bad"
        /\ NameHasKnownCwe =>
             /\ returned.prompt.cwe_id \in KnownCwes
             /\ returned.prompt.template.calls
                    = CWE_TEMPLATES[returned.prompt.cwe_id].test_method
             /\ \E i \in 1..Len(args.main_java_file) :
                  SubSeq(args.main_java_file, i, i + Len(returned.prompt.cwe_id) - 1)
                      = returned.prompt.cwe_id

\* a file named CWE999_word.java was given the template of CWE113
C19_Witness ==
    /\ fpc = "done"
    /\ args.main_java_file = <<"CWE", "9", "9", "9", "_", "word", ".java">>
    /\ returned.prompt.template.test = <<"testCWE113_HTTPResponseSplitting">>
    /\ returned.prompt.template.braces = "plain"

\* C23: build_prompt does not raise, whatever the CWE id: the prompt it
\* returns carries the template of the id with the package, the main class
\* and the test class filled in and every other brace as in the Java code.
C23_BuildPromptNeverRaises ==
    fpc = "done" =>
        /\ returned # FormatError
        /\ "template" \in DOMAIN returned
        /\ returned.template.braces = "plain"
        /\ returned.template.package \in {"word", "testcases"}
        /\ returned.template.main_class \in {"word", "MainClass"}
        /\ returned.template.test_class = <<returned.template.main_class, "Test">>

\* build_prompt returned a prompt for every known id it was given
C23_KnownIdsFormat ==
    (fpc = "done" /\ args.cwe_id \in KnownCwes) =>
        /\ returned # FormatError
        /\ returned.cwe_id = args.cwe_id
        /\ returned.template.braces = "plain"
        /\ returned.template.test = templates[args.cwe_id].test
        /\ returned.template.test_class = <<returned.template.main_class, "Test">>


----------------------------------------------------------------------------
\* Properties of run_pipeline when process_single_testcase can raise

\* the testcases whose processing raised: the loop took them and no stage
\* was called for them
Skipped == {n \in ProcessedSet : stage_log[n] = <<>>}

\* the loop of run_pipeline is running
InLoop == pc \in {"loop", "step1", "step2", "step3"}

\* C20: an exception raised by the processing of a testcase only skips that
\* testcase.  The loop stops before the last selected directory only after
\* a manual interrupt; a run that is not interrupted takes every selected
\* directory, the ones after a skipped testcase included, and each later
\* testcase that is not skipped itself goes through its stages; however the
\* loop ends, by exhaustion or by interrupt, the next thing the run does is
\* print the summary.
C20_ErrorOnlySkipsTestcase ==
    /\ []((pc \in {"summary", "done"} /\ idx < Len(testcase_dirs)) => interrupted)
    /\ []((pc \in {"summary", "done"} /\ ~interrupted) =>
            /\ ProcessedSet = Selected
            /\ \A n \in ProcessedSet \ Skipped :
                 /\ stage_log[n][1].stage = "commit_history"
                 /\ stage_log[n][Len(stage_log[n])].result \in {"True", "False"})
    /\ [][(InLoop /\ ~InLoop') => pc' = "summary"]_vars
    /\ [][pc = "summary" => pc' = "done"]_vars
    /\ [][(pc' = "done" /\ pc # "done") =>
             (pc = "summary" \/ (pc = "start" /\ parsed_juliet = {}))]_vars

\* the processing of the first of two testcases raised, the second was
\* patched, and the summary has been printed
C20_Witness ==
    /\ pc = "done" /\ ~interrupted
    /\ Len(processed) = 2
    /\ processed[1] \in Skipped
    /\ Len(stage_log[processed[2]]) = 3
    /\ stage_log[processed[2]][3].result = "True"
    /\ stats.patch_success = 1

----------------------------------------------------------------------------
\* Properties of the patch loop, finding by finding

\* the loop body runs for the finding at fpos and overwrites the target file
PatchWritten ==
    /\ ppc = "loop"
    /\ fpos \in DOMAIN attempts
    /\ attempts'[fpos].write = attempts[fpos].write + 1

\* the commit or the push of the patch written by this step failed
PatchNotPushed == PatchWritten /\ patch_commits' = patch_commits

\* C21: no rollback.  When the loop body has overwritten the target file
\* and the commit or the push then fails, the file holds the patched code,
\* the finding is counted as failed and not as patched, and the loop goes on
\* to the next finding (or returns after the last); no later step of the
\* loop gives a patched file its original content back.
C21_NoRollback ==
    /\ [][PatchNotPushed =>
           /\ files'[FilePathOf(findings[fpos]).v] \in PatchedCodes
           /\ patch_stats'.failed = patch_stats.failed + 1
           /\ patch_stats'.patched = patch_stats.patched
           /\ fpos' = fpos + 1
           /\ findings' = findings
           /\ ppc' = IF fpos < Len(findings) THEN "loop" ELSE "returned"]_vars
    /\ [][ppc = "loop" =>
           \A f \in DOMAIN files :
               files[f] \in PatchedCodes => files'[f] \in PatchedCodes]_vars

\* the patch of the first of two findings was written and not pushed, the
\* file holds patched code, and the second finding was patched and pushed
C21_Witness ==
    /\ ppc = "returned"
    /\ Len(findings) = 2
    /\ attempts[1].write = 1 /\ attempts[2].write = 1
    /\ patch_stats = [total |-> 2, patched |-> 1, failed |-> 1]
    /\ Len(patch_commits) = 1
    /\ CweIdOf(findings[1]) # CweIdOf(findings[2])
    /\ patch_commits[1][2] = CweIdOf(findings[2]).v
    /\ files[FilePathOf(findings[1]).v] \in PatchedCodes

----------------------------------------------------------------------------
\* Properties of the dataset extractor

\* record is a <testcase> with a file whose path is target
HoldsTarget(record, target) ==
    /\ record.tag = "testcase"
    /\ \E i \in DOMAIN record.children :
         /\ "path" \in DOMAIN record.children[i].attrs
         /\ record.children[i].attrs["path"] = target
         /\ target # ""

\* list is the paths of the children of record, in document order
IsPathsOf(list, record) ==
    LET pathed == {i \in DOMAIN record.children :
                      /\ "path" \in DOMAIN record.children[i].attrs
                      /\ record.children[i].attrs["path"] # ""}
    IN /\ Len(list) = Cardinality(pathed)
       /\ \A i \in pathed :
            list[Cardinality({j \in pathed : j <= i})] = record.children[i].attrs["path"]

\* C22: parse_manifest_for_testcase returns the paths of the first
\* <testcase> record, in document order, that has a file whose path is the
\* target, all of them in document order; it returns the list holding the
\* target alone when no record has it or the manifest cannot be parsed.  The
\* result is never empty and always holds the target.
C22_FullFileSet ==
    fpc = "done" =>
        LET manifest == args.manifest.root
            target == args.target_file
        IN /\ returned # <<>>
           /\ \E i \in DOMAIN returned : returned[i] = target
           /\ IF ~args.manifest.parsed
                 \/ \A k \in DOMAIN manifest : ~HoldsTarget(manifest[k], target)
              THEN returned = <<target>>
              ELSE \E k \in DOMAIN manifest :
                     /\ HoldsTarget(manifest[k], target)
                     /\ \A j \in 1..(k - 1) : ~HoldsTarget(manifest[j], target)
                     /\ IsPathsOf(returned, manifest[k])

\* a.java is in both records; the files of the first one are returned
C22_Witness ==
    /\ fpc = "done"
    /\ args.target_file = "a.java"
    /\ args.manifest.root
          = <<TestcaseElem(<<FileElem("a.java"), FileElem("b.java")>>),
              TestcaseElem(<<BareElem, FileElem("a.java")>>)>>
    /\ returned = <<"a.java", "b.java">>

----------------------------------------------------------------------------
\* Properties of build_project

\* C24: the main file is in the working tree but not in the "Initial
\* project setup" commit, which is the first commit build_project creates;
\* every commit that holds the main file is a commit of a history step and
\* comes after the setup commit.
C24_MainFileOnlyThroughHistory ==
    /\ gpc \in {"generate", "apply", "returned"} =>
         /\ Len(repo_log) >= 1
         /\ repo_log[1].message = <<"Initial project setup">>
         /\ repo_log[1].main = Untracked
    /\ gpc = "generate" => Len(repo_log) = 1 /\ tracked_file \in OriginalCodes
    /\ \A k \in DOMAIN repo_log :
         /\ k >= 2 => repo_log[k].message # <<"Initial project setup">>
         /\ repo_log[k].main # Untracked =>
              /\ k >= 2
              /\ k - 1 <= step_idx
              /\ k - 1 \in DOMAIN commits
              /\ repo_log[k].message[5] = commits[k - 1].message

\* the setup commit without the main file, then two history commits with it
C24_Witness ==
    /\ gpc = "returned"
    /\ Len(repo_log) = 3
    /\ repo_log[1].message = <<"Initial project setup">>
    /\ repo_log[1].main = Untracked
    /\ repo_log[2].main # Untracked /\ repo_log[3].main # Untracked

----------------------------------------------------------------------------
\* Properties of main of parse_manifest.py

\* the paths of a testcase id
FileSet(testcase_id) == DOMAIN testcase_id

\* C25: each distinct file set is materialized at most once: no two
\* directories the run created hold the same file set, the directories
\* created are testcase-0, testcase-1, ... in this order, and the count
\* reported at the end is the number of directories the run created.
C25_EachTestcaseOnce ==
    fpc \in {"loop", "raised", "done"} =>
        /\ \A j, k \in DOMAIN returned.created :
             j # k => FileSet(returned.created[j].id) # FileSet(returned.created[k].id)
        /\ \A k \in DOMAIN returned.created : returned.created[k].num = k - 1
        /\ returned.testcase_count = Len(returned.created)
        /\ {returned.created[k].num : k \in DOMAIN returned.created}
               = returned.dirs \ args.existing
        /\ fpc = "done" => returned.reported = <<Len(returned.created)>>

\* a.java and b.java are of one testcase, c.java of another: three targets,
\* two directories, and 2 is reported
C25_Witness ==
    /\ fpc = "done"
    /\ args.target_files = <<"a.java", "b.java", "c.java">>
    /\ Len(returned.created) = 2
    /\ FileSet(returned.created[1].id) = {"a.java", "b.java"}
    /\ FileSet(returned.created[2].id) = {"c.java"}
    /\ returned.reported = <<2>>

\* C26: parse_gpt_response never returns an empty list, whatever the response,
\* the empty one included, and the steps of one result are of one tier: the
\* structured matches alone when there is one, java blocks outside them being
\* ignored; otherwise one step per java block; otherwise the single step of
\* the whole response.
C26_NeverEmptySingleTier ==
    Parsed =>
        LET matches == StructuredMatches(Render(args), 1)
            blocks == JavaBlocks(Render(args), 1)
        IN /\ returned # <<>>
           /\ matches # <<>> => returned = matches
           /\ (matches = <<>> /\ blocks # <<>>) =>
                /\ Len(returned) = Len(blocks)
                /\ \A i \in 1..Len(blocks) :
                     returned[i] = Step(<<"Step">> \o DecimalText(i), Strip(blocks[i]))
           /\ (matches = <<>> /\ blocks = <<>>) =>
                /\ Len(returned) = 1
                /\ returned[1].message = <<"Initial implementation">>
           /\ SomePart(HasHashes) =>
                Len(returned) <= Cardinality({k \in 1..Len(args) : HasHashes(args[k])})

\* a java block before and after a hashed commit block: the one step of the
\* commit block is returned
C26_Witness ==
    /\ Parsed
    /\ args = <<FencePart("java", CodeA),
                CommitPart(<<"#">>, <<"1">>, <<"msgB", "sp", "word">>, "plain", CodeB),
                FencePart("java", CodeA)>>
    /\ returned = <<Step(<<"msgB", "sp", "word">>, CodeB)>>

\* the empty response gave the one step of the whole response
C26_EmptyResponse ==
    (Parsed /\ args = <<>>) =>
        returned = <<Step(<<"Initial implementation">>, <<>>)>>

\* Properties of generate_commits on its own

\* the commits that hold the tracked main file
StepCommits(log) == {k \in 1..Len(log) : log[k].main # Untracked}

\* C27: generate_commits fails without committing anything for the tracked
\* file: when the main file does not exist it returns False before the
\* repository is initialized and before any request; when the request raises
\* it returns False, no step commit is created and the tracked file is not
\* rewritten.
C27_FailsWithoutCommitting ==
    /\ ~args.main_java_file.is_file =>
         /\ gpc \in {"validate", "returned"}
         /\ gpc = "returned" => apply_result = "False"
         /\ ~returned.initialized
         /\ returned.requests = 0
         /\ repo_log = args.repo_log
         /\ tracked_file = args.main_java_file.code
         /\ pushes = <<>>
    /\ returned.response = "raised" =>
         /\ gpc = "returned"
         /\ apply_result = "False"
         /\ returned.requests = 1
         /\ StepCommits(repo_log) = {}
         /\ Len(repo_log) = 1
         /\ step_idx = 0
         /\ tracked_file = args.main_java_file.code
         /\ pushes = <<>>

\* the request raised in a repository without commits: False is returned and
\* the placeholder commit is the only commit
C27_Witness ==
    /\ returned.response = "raised"
    /\ args.repo_log = <<>>
    /\ apply_result = "False"
    /\ repo_log = <<Commit(<<"Initial commit">>, Untracked)>>

\* the main file was missing: False is returned and nothing else happened
C27_MissingFileReached ==
    /\ ~args.main_java_file.is_file
    /\ gpc = "returned"
    /\ apply_result = "False"

\* Properties of patch_all_findings on findings that lack a field

\* no name of names gives finding a value other than null, "" and 0
Lacks(finding, names) ==
    \A n \in names :
        n \notin DOMAIN finding \/ finding[n] \in {JNull, JStr(""), JInt(0)}

LacksField(finding) ==
    \/ Lacks(finding, {"file_path", "filepath", "path", "filePath"})
    \/ Lacks(finding, {"line", "line_number"})
    \/ Lacks(finding, {"cwe_id", "cweId", "cwe"})

\* the findings the loop is done with
Done(i) == ppc \in {"loop", "returned"} /\ i \in 1..Len(findings) /\ i < fpos

\* C28: a finding that lacks a file path, a line or a CWE id under every
\* accepted name (or holds an empty or zero value) is skipped: it is counted
\* as failed, no request is made for it, no file is written, no commit is
\* attempted, and the findings after it are still processed.
C28_IncompleteFindingSkipped ==
    /\ \A i \in 1..Len(findings) :
         (Done(i) /\ LacksField(findings[i])) =>
             /\ attempts[i] = [llm |-> 0, write |-> 0, commit |-> 0]
             /\ patch_stats.failed >=
                    Cardinality({k \in 1..(fpos - 1) : LacksField(findings[k])})
             /\ ppc = "returned" => fpos = Len(findings) + 1
             /\ (i < Len(findings) /\ Done(i + 1) /\ ~LacksField(findings[i + 1])) =>
                    attempts[i + 1].llm = 1
    /\ (ppc \in {"loop", "returned"}
           /\ \A k \in 1..Len(findings) : Done(k) => LacksField(findings[k])) =>
         /\ files = OriginalFiles
         /\ requests = <<>>
         /\ patch_commits = <<>>
         /\ patch_stats.failed = IF fpos = 0 THEN 0 ELSE fpos - 1
         /\ patch_stats.patched = 0
    /\ ppc \in {"loop", "returned"} =>
         Len(requests) = Cardinality({k \in 1..Len(findings) :
                                         Done(k) /\ ~LacksField(findings[k])})

\* a finding whose path is null under one name and empty under another was
\* skipped, and the complete finding after it was patched and pushed
C28_Witness ==
    /\ ppc = "returned"
    /\ Len(findings) = 2
    /\ findings[1] = [file_path |-> JNull, filepath |-> JStr(""),
                      line |-> JInt(10), cwe_id |-> JStr("CWE89")]
    /\ attempts[1] = [llm |-> 0, write |-> 0, commit |-> 0]
    /\ attempts[2] = [llm |-> 1, write |-> 1, commit |-> 1]
    /\ patch_stats = [total |-> 2, patched |-> 1, failed |-> 1]
    /\ Len(requests) = 1

\* Properties of run_patch_generation

\* run_patch_generation returns to process_single_testcase
PatchStageEnds == pc = "step3" /\ ppc \in {"returned", "raised"} /\ ~interrupted'

StepsOf(num) == {returned_steps'[num][k] : k \in 1..Len(returned_steps'[num])}

\* C29: the patch counters depend only on whether the patch stage raised:
\* patch_success is incremented and the step is reported completed whenever
\* patch_all_findings returns, even when every finding failed, and
\* patch_failed is incremented only when an exception escapes
\* patch_all_findings.
C29_PatchCountersFollowRaise ==
    [][/\ (PatchStageEnds /\ ppc = "returned") =>
            /\ stats' = [stats EXCEPT !.patch_success = @ + 1]
            /\ "patch_generation" \in StepsOf(CurrentTestcase)
       /\ (PatchStageEnds /\ ppc = "raised") =>
            /\ stats' = [stats EXCEPT !.patch_failed = @ + 1]
            /\ "patch_generation" \notin StepsOf(CurrentTestcase)
       /\ stats'.patch_failed # stats.patch_failed =>
            PatchStageEnds /\ ppc = "raised"
       /\ stats'.patch_success # stats.patch_success =>
            PatchStageEnds /\ ppc = "returned"]_vars

\* the only testcase had one finding, without a CWE id, which was skipped
\* and counted as failed: the stage is counted as a success and reported
\* completed
C29_Witness ==
    /\ pc = "done" /\ ~interrupted
    /\ Len(processed) = 1
    /\ findings_file # NoFile
    /\ findings_file.content = JsonArray(<<[path |-> JStr("B.java"), line |-> JInt(3)]>>)
    /\ stats.patch_success = 1 /\ stats.patch_failed = 0
    /\ returned_steps[processed[1]]
           = <<"commit_history", "cwe_analysis", "patch_generation">>

\* Properties of the order of the patches

\* the position in requests of the request made for the finding at position i
RequestOf(i) == Cardinality({k \in 1..i : attempts[k].llm = 1})

\* the loop body has made a request in this step
Requested == Len(requests') = Len(requests) + 1

\* C30: findings are patched one after another in file order, each request
\* built from the file as it is at that moment: when two findings target the
\* same file, the request of the later one holds the content the earlier
\* one's patch wrote, committed or not, and not the original content.
C30_LaterFindingReadsEarlierPatch ==
    /\ [](\A i, j \in 1..Len(findings) :
            (/\ ppc \in {"loop", "returned"}
             /\ i < j /\ j < fpos
             /\ IsCompleteFinding(findings[i]) /\ IsCompleteFinding(findings[j])
             /\ FilePathOf(findings[i]) = FilePathOf(findings[j])
             /\ attempts[i].write = 1 /\ attempts[j].llm = 1) =>
                /\ RequestOf(i) < RequestOf(j)
                /\ requests[RequestOf(i)].line = VulnLineOf(findings[i])
                /\ requests[RequestOf(j)].line = VulnLineOf(findings[j])
                /\ requests[RequestOf(j)].code \in PatchedCodes
                /\ requests[RequestOf(j)].code
                       # OriginalFiles[requests[RequestOf(j)].file])
    /\ [][Requested =>
            LET asked == requests'[Len(requests')]
            IN /\ fpos' = fpos + 1
               /\ asked.file = FilePathOf(findings[fpos]).v
               /\ asked.code = files[asked.file]
               /\ SubSeq(requests', 1, Len(requests)) = requests]_vars

\* two findings on A.java: the patch of the first was written but its push
\* failed, and the request of the second held that patch
C30_Witness ==
    /\ ppc = "returned"
    /\ Len(findings) = 2
    /\ FilePathOf(findings[1]) = JStr("A.java")
    /\ FilePathOf(findings[2]) = JStr("A.java")
    /\ CweIdOf(findings[1]) # CweIdOf(findings[2])
    /\ attempts[1].write = 1
    /\ patch_commits = <<>>
    /\ Len(requests) = 2
    /\ requests[1].code = "original"
    /\ requests[2].code = "patched1"
    /\ files["A.java"] = "patched2"

====
